---- MODULE Spec2Model ----
\* Verification model of the pluggy template compiler and reactive runtime.
\*   tokenizer            src/src/compiler/lexer.ts  (tokenize, lines 159-287)
\*   reactive core        src/src/runtime.ts         (signal, computed, effect, batch)
\*   list reconcilers     src/src/runtime.ts         (each, eachKeyed)
\*   parser, optimizer,   src/src/compiler/parser.ts, src/unnamed/part_004,
\*   code generator       src/src/compiler/codegen.ts, src/src/compiler/compile.ts
\* Each part has its own specification; the variables of the other parts stay
\* at their idle values.
EXTENDS Integers, Sequences, FiniteSets, TLC

VARIABLES
    \* ---- tokenizer ----
    src,          \* the input string, a sequence of one-character strings
    i,            \* cursor (0-based, as in the code)
    braceDepth,   \* depth of { } nesting
    out,          \* tokens emitted so far
    lpc,          \* "idle" | "run" | "done": position of tokenize
    \* ---- reactive core ----
    val,          \* signal -> current value
    subs,         \* signal -> set of subscriber callbacks
    isBatching,   \* module-level batching flag
    pending,      \* the pending Set of runAll closures, in insertion order
    wasStack,     \* saved wasBatching of each batch() call in progress
    activeWatch,  \* module-level slot: the effect run currently executing
    activeComputed, \* module-level slot: the computed rerun being registered
    created,      \* computeds / effects constructed so far
    lastReads,    \* computation -> signals its body read in its most recent run
    firstReads,   \* computation -> signals its body read when it was constructed
    inv,          \* caller -> callback -> invocations during the last operation
    last,         \* the last operation performed
    disposed,     \* effects whose disposer has been called
    promise,      \* the promise returned by the loader of resource(loader)
    subscription, \* <<signal, callback>> -> "none" | "live" | "revoked": what the
                  \* caller did last, subscribe or call the function it returned
    fnKind,       \* effect -> what its body fn does
    \* ---- list reconcilers ----
    list,         \* value of the list signal
    attached,     \* TRUE once the nodes returned by each() are appended to a parent
    lookup,       \* each: key -> [sig, idx, node, tracked]
    dom,          \* each: children of the marker's parent, in document order
    currentMap,   \* eachKeyed: key -> [item, index, node, tracked]
    output,       \* eachKeyed: the output array
    inDoc,        \* eachKeyed: nodes that currently have a parent
    rendered,     \* keys render was called for during the last operation, in call order
    renderReads,  \* whether render reads the item / index signal it is given
    \* ---- compiler pipeline ----
    template,     \* the template text given to compile
    ast,          \* the node sequence the pipeline is working on
    code,         \* the generated code
    cpc,          \* position of the pipeline
    thrown,       \* the stage that raised an exception, if any
    variant,      \* which of the definitions of optimize the build holds
    argAfter,     \* the argument of the last optimize call, as it is after the call
    inlined       \* the text inline(node) returned

lexVars == <<src, i, braceDepth, out, lpc>>
reactVars == <<val, subs, isBatching, pending, wasStack, activeWatch, activeComputed,
               created, lastReads, firstReads, inv, last, disposed, promise,
               subscription, fnKind>>
listVars == <<list, attached, lookup, dom, currentMap, output, inDoc, rendered,
              renderReads>>
compVars == <<template, ast, code, cpc, thrown, variant, argAfter, inlined>>
vars == <<lexVars, reactVars, listVars, compVars>>

\* ------------------------------------------------------------------
\* Bounds
\* ------------------------------------------------------------------
MaxSrcLen == 3

\* ------------------------------------------------------------------
\* Tokenizer  (src/src/compiler/lexer.ts, second definition of tokenize)
\* ------------------------------------------------------------------
\* the characters the enumerated inputs are made of
Alphabet == {"{", "}", "<", "/", ">", "a", "A", "1", " ", "=", "'"}
Upper == {"A", "B", "C", "D", "E", "F", "G", "H", "I", "J", "K", "L", "M",
          "N", "O", "P", "Q", "R", "S", "T", "U", "V", "W", "X", "Y", "Z"}
Digits == {"0", "1", "2", "3", "4", "5", "6", "7", "8", "9"}
Letters ==                                           \* /[A-Za-z]/
    Upper \cup {"a", "b", "c", "d", "e", "f", "g", "h", "i", "j", "k", "l", "m",
                "n", "o", "p", "q", "r", "s", "t", "u", "v", "w", "x", "y", "z"}
NameChars == Letters \cup Digits \cup {":", "_", "-"}  \* /[A-Za-z0-9:_-]/
Whitespace == {" ", "\n"}                            \* /\s/
Quotes == {"\"", "'"}
\* every character a string of the model can hold
Chars ==
    Letters \cup Digits \cup Whitespace \cup Quotes \cup
    {"{", "}", "<", "/", ">", "=", "(", ")", "[", "]", ",", ".", ";", ":",
     "_", "-", "+", "*", "!", "\\"}
TextStop == {"<", "{", "}"}
Undef == "undefined"

Strings(n) == UNION {[1..k -> Alphabet] : k \in 0..n}

\* src[p] with 0-based p; undefined beyond the end
At(s, p) == IF p < Len(s) THEN s[p + 1] ELSE Undef

\* src.slice(a, b) with 0-based a, b
Slice(s, a, b) == IF b <= a THEN <<>> ELSE SubSeq(s, a + 1, b)

\* readWhile(re): advance while the character is in the class
RECURSIVE ReadWhile(_, _, _)
ReadWhile(s, p, class) ==
    IF p < Len(s) /\ s[p + 1] \in class THEN ReadWhile(s, p + 1, class) ELSE p

\* String.prototype.trim
Trim(s) ==
    LET RECURSIVE TrimLeft(_)
        TrimLeft(x) == IF x # <<>> /\ Head(x) \in Whitespace THEN TrimLeft(Tail(x)) ELSE x
        RECURSIVE TrimRight(_)
        TrimRight(x) ==
            IF x # <<>> /\ x[Len(x)] \in Whitespace
            THEN TrimRight(SubSeq(x, 1, Len(x) - 1)) ELSE x
    IN  TrimRight(TrimLeft(s))

Tok(t, v) == [type |-> t, v |-> v]

RECURSIVE BraceScan(_, _, _)

\* a scan that stops at the first closing brace (used to test C26)
BraceScanNoDepth(s, p, depth) ==
    IF ~(p < Len(s)) THEN p
    ELSE IF s[p + 1] = "}" THEN p
    ELSE BraceScan(s, p + 1, depth)

\* the depth-tracking loop of a braced attribute value: position of the matching
\* closing brace, or the end of the input
BraceScan(s, p, depth) ==
    IF ~(p < Len(s) /\ depth > 0) THEN p
    ELSE IF s[p + 1] = "{" THEN BraceScan(s, p + 1, depth + 1)
    ELSE IF s[p + 1] = "}" THEN
        IF depth - 1 = 0 THEN p ELSE BraceScan(s, p + 1, depth - 1)
    ELSE BraceScan(s, p + 1, depth)

\* the attribute loop of an opening tag: [i, out] when it is left
RECURSIVE AttrLoop(_, _, _)
AttrLoop(s, p, o) ==
    IF ~(p < Len(s)) THEN [i |-> p, out |-> o]
    ELSE IF s[p + 1] \in {">", "/"} THEN [i |-> p, out |-> o]
    ELSE IF s[p + 1] \in Whitespace THEN AttrLoop(s, p + 1, o)
    ELSE
        LET j == ReadWhile(s, p, NameChars)
            attr == Slice(s, p, j)
            o1 == Append(o, Tok("attrName", attr))
        IN  IF attr = <<>> THEN AttrLoop(s, p + 1, o)
            ELSE IF At(s, j) = "=" THEN
                LET k == j + 1 IN
                IF At(s, k) \in Quotes THEN
                    LET m == ReadWhile(s, k + 1, Chars \ {At(s, k)})
                        n == IF At(s, m) = At(s, k) THEN m + 1 ELSE m
                    IN  AttrLoop(s, n, Append(o1, Tok("attrValue", Slice(s, k + 1, m))))
                ELSE IF At(s, k) = "{" THEN
                    LET m == BraceScan(s, k + 1, 1)
                        n == IF At(s, m) = "}" THEN m + 1 ELSE m
                    IN  AttrLoop(s, n, Append(o1, Tok("attrValue", Trim(Slice(s, k + 1, m)))))
                ELSE
                    LET m == ReadWhile(s, k, Chars \ (Whitespace \cup {">"}))
                    IN  AttrLoop(s, m, Append(o1, Tok("attrValue", Slice(s, k, m))))
            ELSE AttrLoop(s, j, Append(o1, Tok("attrName", attr)))

\* end of the plain-text scan that starts at p
TextEnd(s, p) == ReadWhile(s, p, Chars \ TextStop)

ch == At(src, i)
Looping == lpc = "run" /\ i < Len(src)

\* if (ch === "{")
LexExprOpen ==
    /\ Looping /\ ch = "{"
    /\ out' = Append(out, Tok("exprOpen", <<>>))
    /\ braceDepth' = braceDepth + 1
    /\ i' = i + 1
    /\ UNCHANGED <<src, lpc, reactVars, listVars, compVars>>

\* if (ch === "}" && braceDepth > 0)
LexExprClose ==
    /\ Looping /\ ch = "}" /\ braceDepth > 0
    /\ out' = Append(out, Tok("exprClose", <<>>))
    /\ braceDepth' = braceDepth - 1
    /\ i' = i + 1
    /\ UNCHANGED <<src, lpc, reactVars, listVars, compVars>>

IsTagClose == ch = "<" /\ At(src, i + 1) = "/"
IsTagOpen == ch = "<" /\ At(src, i + 1) \in Letters

\* closing tag </name>
LexTagClose ==
    /\ Looping /\ IsTagClose
    /\ LET j == ReadWhile(src, i + 2, NameChars)
       IN  /\ i' = IF At(src, j) = ">" THEN j + 1 ELSE j
           /\ out' = Append(out, Tok("tagClose", Slice(src, i + 2, j)))
    /\ UNCHANGED <<src, braceDepth, lpc, reactVars, listVars, compVars>>

\* opening tag <name attrs...> with its attribute loop and the self-close rule
LexTagOpen ==
    /\ Looping /\ IsTagOpen
    /\ LET j == ReadWhile(src, i + 1, NameChars)
           tag == Slice(src, i + 1, j)
           a == AttrLoop(src, j, Append(out, Tok("tagOpen", tag)))
       IN  IF At(src, a.i) = "/" THEN
               /\ i' = IF At(src, a.i + 1) = ">" THEN a.i + 2 ELSE a.i + 1
               /\ out' = Append(a.out, Tok("tagClose", tag))
           ELSE
               /\ i' = IF At(src, a.i) = ">" THEN a.i + 1 ELSE a.i
               /\ out' = a.out
    /\ UNCHANGED <<src, braceDepth, lpc, reactVars, listVars, compVars>>

\* plain text: scan up to the next "<", "{" or "}"; push a token if non-empty
LexText ==
    /\ Looping
    /\ ch # "{" /\ ~(ch = "}" /\ braceDepth > 0) /\ ~IsTagClose /\ ~IsTagOpen
    /\ LET e == TextEnd(src, i)
       IN  /\ i' = e
           /\ out' = IF e > i THEN Append(out, Tok("text", Slice(src, i, e))) ELSE out
    /\ UNCHANGED <<src, braceDepth, lpc, reactVars, listVars, compVars>>

\* the loop is left: out.push({ type: "eof" }); return out
LexEof ==
    /\ lpc = "run" /\ ~(i < Len(src))
    /\ out' = Append(out, Tok("eof", <<>>))
    /\ lpc' = "done"
    /\ UNCHANGED <<src, i, braceDepth, reactVars, listVars, compVars>>


\* ------------------------------------------------------------------
\* Reactive core  (src/src/runtime.ts)
\* ------------------------------------------------------------------
MaxBatchDepth == 2
MaxPending == 2

Null == "null"
Sources == {"a", "b"}          \* signals created with signal(0)
Out == "c"                     \* the signal returned by computed(calc)
Resource == "d"                \* the signal returned by resource(loader)
Signals == Sources \cup {Out, Resource}
Plain == {"f"}                 \* the callback registered with subscribe
Rerun == "rerun"               \* the rerun closure of computed(calc)
Effects == {"run"}             \* the run closure of effect(fn)
Watchers == Effects \cup {"runB"} \* the run closures of two effects
Subscribers == Plain \cup {"g"} \* the callbacks registered with subscribe
Callbacks == Subscribers \cup {Rerun} \cup Watchers
Values == {0, 1}
\* signal(0) for the sources and the computed, signal(null) for the resource
InitVal == [s \in Signals |-> IF s = Resource THEN Null ELSE 0]
\* subscribe has not been called yet
NoSubscription == [p \in Signals \X Subscribers |-> "none"]
\* the loader has not been called yet
NoPromise == [status |-> "none", value |-> Null]
Direct == "direct"             \* a call that is not made by a signal's runAll
Callers == Signals \cup {Direct}

\* `running` is declared and never assigned
running == Null

\* calc and fn: a conditional dependency, b is read only when a is non-zero
CalcReads(v) == IF v["a"] # 0 THEN {"a", "b"} ELSE {"a"}
CalcValue(v) == IF v["a"] # 0 THEN v["b"] ELSE 0
FnReads(v) == IF v["a"] # 0 THEN {"a", "b"} ELSE {"a"}

NoInv == [c \in Callers |-> [cb \in Callbacks |-> 0]]

\* the reactive state as one record, for the operators below
St == [val |-> val, subs |-> subs, isBatching |-> isBatching, pending |-> pending,
       aw |-> activeWatch, ac |-> activeComputed, lastReads |-> lastReads, inv |-> NoInv,
       kind |-> fnKind]

\* the signal read function, applied to every signal of the set rs
ReadAll(st, rs) ==
    LET trackers == {running, st.ac, st.aw} \ {Null}
    IN  [st EXCEPT !.subs = [s \in Signals |->
            IF s \in rs THEN st.subs[s] \cup trackers ELSE st.subs[s]]]

Count(st, by, cb) == [st EXCEPT !.inv[by][cb] = @ + 1]

RECURSIVE SetSig(_, _, _)
RECURSIVE RunAll(_, _)
RECURSIVE RunSubs(_, _, _)
RECURSIVE Invoke(_, _, _)

\* a run that never stores itself in activeWatch (used to test C10)
EffectRunUntracked(st, e) == [st EXCEPT !.lastReads[e] = FnReads(st.val)]

\* the disposer returned by effect(fn): () => activeWatch && (activeWatch = null)
EffectDispose(st) == IF st.aw # Null THEN [st EXCEPT !.aw = Null] ELSE st

\* run = () => { prev = activeWatch; activeWatch = run; fn(); activeWatch = prev }
\* The body fn is one of:
\*   "read", "threw"  it reads a, and b when a is non-zero
\*   "throw"          it reads a and throws: the last assignment is not reached
\*   "dispose"        it reads a, calls the disposer of another effect, reads b
EffectRun(st, e) ==
    LET st1 == [st EXCEPT !.aw = e]
        rs == FnReads(st1.val)
    IN  IF st.kind[e] = "throw"
        THEN [ReadAll(st1, {"a"}) EXCEPT !.lastReads[e] = {"a"}]
        ELSE IF st.kind[e] = "dispose"
        THEN [ReadAll(EffectDispose(ReadAll(st1, {"a"})), {"b"})
                EXCEPT !.aw = st.aw, !.lastReads[e] = {"a", "b"}]
        ELSE [ReadAll(st1, rs) EXCEPT !.aw = st.aw, !.lastReads[e] = rs]

\* rerun = () => out.set(calc())
ComputedRerun(st) ==
    LET rs == CalcReads(st.val)
        st1 == ReadAll(st, rs)
    IN  SetSig([st1 EXCEPT !.lastReads[Rerun] = rs], Out, CalcValue(st1.val))

\* one callback of a subscriber set is called
Invoke(st, by, cb) ==
    LET st1 == Count(st, by, cb)
    IN  IF cb = Rerun THEN ComputedRerun(st1)
        ELSE IF cb \in Watchers THEN EffectRun(st1, cb)
        ELSE st1

\* subs.forEach((fn) => fn()); the callbacks of this model commute, so the
\* iteration order of the Set is not kept
RunSubs(st, s, todo) ==
    IF todo = {} THEN st
    ELSE LET cb == CHOOSE x \in todo : TRUE
         IN  RunSubs(Invoke(st, s, cb), s, todo \ {cb})

RunAll(st, s) == RunSubs(st, s, st.subs[s])

\* a set without the Object.is comparison (used to test C4)
SetSigNoCompare(st, s, next) ==
    LET st1 == [st EXCEPT !.val[s] = next]
    IN  IF st1.isBatching
        THEN [st1 EXCEPT !.pending = Append(@, [sig |-> s, subsAtSet |-> st1.subs[s]])]
        ELSE RunAll(st1, s)

\* sig.set
SetSig(st, s, next) ==
    IF next # st.val[s] THEN
        LET st1 == [st EXCEPT !.val[s] = next]
        IN  IF st1.isBatching
            THEN [st1 EXCEPT !.pending = Append(@, [sig |-> s, subsAtSet |-> st1.subs[s]])]
            ELSE RunAll(st1, s)
    ELSE st

\* for (const f of tasks) f()
RECURSIVE RunTasks(_, _)
RunTasks(st, tasks) ==
    IF tasks = <<>> THEN st
    ELSE RunTasks(RunAll(st, Head(tasks).sig), Tail(tasks))

\* a finally block that flushes whenever a batch returns (used to test C12)
BatchFinallyAlwaysFlush(st, wasBatching) ==
    LET st1 == [st EXCEPT !.isBatching = wasBatching]
    IN  RunTasks([st1 EXCEPT !.pending = <<>>], st1.pending)

\* the finally block of batch
BatchFinally(st, wasBatching) ==
    LET st1 == [st EXCEPT !.isBatching = wasBatching]
    IN  IF ~st1.isBatching
        THEN RunTasks([st1 EXCEPT !.pending = <<>>], st1.pending)
        ELSE st1

\* computed(calc)
ComputedCreate(st) ==
    LET rs == CalcReads(st.val)
        st1 == ReadAll(st, rs)                       \* signal(calc())
        st2 == [st1 EXCEPT !.val[Out] = CalcValue(st1.val)]
        st3 == ReadAll([st2 EXCEPT !.ac = Rerun], rs) \* activeComputed = rerun; calc()
    IN  [st3 EXCEPT !.ac = st.ac, !.lastReads[Rerun] = rs]

\* a then-callback that notifies without comparing (used to test C20)
ResourceThenNoCompare(st, result) == SetSigNoCompare(st, Resource, result)

\* (result) => data.set(result)
ResourceThen(st, result) == SetSig(st, Resource, result)

Commit(st) ==
    /\ val' = st.val
    /\ subs' = st.subs
    /\ isBatching' = st.isBatching
    /\ pending' = st.pending
    /\ activeWatch' = st.aw
    /\ activeComputed' = st.ac
    /\ lastReads' = st.lastReads
    /\ inv' = st.inv

\* the module has been loaded: two source signals, no subscriber, no batch
InitReact ==
    /\ src = <<>> /\ i = 0 /\ braceDepth = 0 /\ out = <<>> /\ lpc = "idle"
    /\ val = InitVal
    /\ subs = [s \in Signals |-> {}]
    /\ isBatching = FALSE
    /\ pending = <<>>
    /\ wasStack = <<>>
    /\ activeWatch = Null
    /\ activeComputed = Null
    /\ created = {}
    /\ lastReads = [c \in {Rerun} \cup Watchers |-> {}]
    /\ firstReads = [c \in {Rerun} \cup Watchers |-> {}]
    /\ inv = NoInv
    /\ last = [op |-> "none"]
    /\ disposed = {}
    /\ promise = NoPromise
    /\ subscription = NoSubscription /\ fnKind = [e \in Watchers |-> "read"]
    /\ template = <<>> /\ ast = <<>> /\ code = <<>> /\ cpc = "idle"
    /\ thrown = Null /\ variant = "merge"
    /\ argAfter = <<>> /\ inlined = <<>>
    /\ list = <<>> /\ attached = FALSE /\ lookup = <<>> /\ dom = <<>>
    /\ currentMap = <<>> /\ output = <<>> /\ inDoc = {} /\ rendered = <<>>
    /\ renderReads = FALSE

\* s.subscribe(fn)
Subscribe(f, s) ==
    /\ \/ s \in Sources
       \/ s = Out /\ Rerun \in created
       \/ s = Resource /\ promise.status # "none"
    /\ f \notin subs[s]
    /\ subs' = [subs EXCEPT ![s] = @ \cup {f}]
    /\ subscription' = [subscription EXCEPT ![<<s, f>>] = "live"]
    /\ inv' = NoInv
    /\ last' = [op |-> "subscribe", sig |-> s, cb |-> f]
    /\ UNCHANGED <<val, isBatching, pending, wasStack, activeWatch, activeComputed,
                   created, lastReads, firstReads>>
    /\ UNCHANGED <<lexVars, listVars, compVars, fnKind, disposed, promise>>

\* an unsubscribe function that empties the subscriber set (used to test C21)
UnsubscribeAll(f, s) ==
    /\ subscription[<<s, f>>] = "live"
    /\ subs' = [subs EXCEPT ![s] = {}]
    /\ subscription' = [subscription EXCEPT ![<<s, f>>] = "revoked"]
    /\ inv' = NoInv
    /\ last' = [op |-> "unsubscribe", sig |-> s, cb |-> f]
    /\ UNCHANGED <<val, isBatching, pending, wasStack, activeWatch, activeComputed,
                   created, lastReads, firstReads>>
    /\ UNCHANGED <<lexVars, listVars, compVars, fnKind, disposed, promise>>

\* the function s.subscribe(f) returned is called: () => subs.delete(fn)
Unsubscribe(f, s) ==
    /\ subscription[<<s, f>>] = "live"
    /\ subs' = [subs EXCEPT ![s] = @ \ {f}]
    /\ subscription' = [subscription EXCEPT ![<<s, f>>] = "revoked"]
    /\ inv' = NoInv
    /\ last' = [op |-> "unsubscribe", sig |-> s, cb |-> f]
    /\ UNCHANGED <<val, isBatching, pending, wasStack, activeWatch, activeComputed,
                   created, lastReads, firstReads>>
    /\ UNCHANGED <<lexVars, listVars, compVars, fnKind, disposed, promise>>

\* s.set(v), called from top level or from the body of a batch
Set(s, v) ==
    /\ (isBatching /\ v # val[s]) => Len(pending) < MaxPending
    /\ Commit(SetSig(St, s, v))
    /\ last' = [op |-> "set", sig |-> s, v |-> v, changed |-> v # val[s],
                batching |-> isBatching, subsBefore |-> subs[s]]
    /\ UNCHANGED <<wasStack, created, firstReads>>
    /\ UNCHANGED <<lexVars, listVars, compVars, subscription, fnKind, disposed, promise>>

\* batch(fn) is entered: wasBatching = isBatching; isBatching = true
BatchEnter ==
    /\ Len(wasStack) < MaxBatchDepth
    /\ wasStack' = Append(wasStack, isBatching)
    /\ isBatching' = TRUE
    /\ inv' = NoInv
    /\ last' = [op |-> "enter"]
    /\ UNCHANGED <<val, subs, pending, activeWatch, activeComputed, created,
                   lastReads, firstReads>>
    /\ UNCHANGED <<lexVars, listVars, compVars, subscription, fnKind, disposed, promise>>

\* fn has returned: the finally block of batch
BatchExit ==
    /\ wasStack # <<>>
    /\ Commit(BatchFinally(St, wasStack[Len(wasStack)]))
    /\ wasStack' = SubSeq(wasStack, 1, Len(wasStack) - 1)
    /\ last' = [op |-> "exit", flushed |-> ~wasStack[Len(wasStack)], tasks |-> pending]
    /\ UNCHANGED <<created, firstReads>>
    /\ UNCHANGED <<lexVars, listVars, compVars, subscription, fnKind, disposed, promise>>

\* computed(calc)
CreateComputed ==
    /\ Rerun \notin created
    /\ Commit(ComputedCreate(St))
    /\ created' = created \cup {Rerun}
    /\ firstReads' = [firstReads EXCEPT ![Rerun] = CalcReads(val)]
    /\ last' = [op |-> "computed"]
    /\ UNCHANGED <<wasStack>>
    /\ UNCHANGED <<lexVars, listVars, compVars, subscription, fnKind, disposed, promise>>

\* effect(fn): run() is called once before effect returns
CreateEffect(e) ==
    /\ e \notin created
    /\ Commit(Invoke(St, Direct, e))
    /\ created' = created \cup {e}
    /\ firstReads' = [firstReads EXCEPT ![e] = FnReads(val)]
    /\ last' = [op |-> "effect", cb |-> e]
    /\ UNCHANGED <<wasStack>>
    /\ UNCHANGED <<lexVars, listVars, compVars, subscription, fnKind, disposed, promise>>

\* the disposer of effect e is called from top level or from the body of a batch
Dispose(e) ==
    /\ e \in created /\ e \notin disposed
    /\ Commit(EffectDispose(St))
    /\ disposed' = disposed \cup {e}
    /\ last' = [op |-> "dispose", cb |-> e]
    /\ UNCHANGED <<wasStack, created, firstReads, promise>>
    /\ UNCHANGED <<lexVars, listVars, compVars, subscription, fnKind>>

NextReact ==
    \/ \E f \in Plain, s \in Signals \ {Resource} : Subscribe(f, s)
    \/ \E s \in Sources, v \in Values : Set(s, v)
    \/ BatchEnter
    \/ BatchExit
    \/ CreateComputed
    \/ \E e \in Effects : CreateEffect(e)
    \/ \E e \in Effects : Dispose(e)

\* ---- effect bodies that throw or call a disposer ----
\* effect(fn) with a body of kind k.  A body that throws does so on its first
\* call only; the effect whose disposer a "dispose" body calls is "run", which
\* has been constructed and has returned its disposer
CreateWatcher(e, k) ==
    /\ e \notin created
    /\ k = "dispose" => (e # "run" /\ "run" \in created /\ fnKind["run"] = "read")
    /\ Commit(Invoke([St EXCEPT !.kind[e] = k], Direct, e))
    /\ created' = created \cup {e}
    /\ fnKind' = [fnKind EXCEPT ![e] = IF k = "throw" THEN "threw" ELSE k]
    /\ disposed' = IF k = "dispose" THEN disposed \cup {"run"} ELSE disposed
    /\ firstReads' = [firstReads EXCEPT ![e] =
            IF k = "throw" THEN {"a"} ELSE IF k = "dispose" THEN {"a", "b"} ELSE FnReads(val)]
    /\ last' = [op |-> "effect", cb |-> e, kind |-> k]
    /\ UNCHANGED <<wasStack, subscription, promise>>
    /\ UNCHANGED <<lexVars, listVars, compVars>>

\* s() is called while no effect or computed body is executing
Read(s) ==
    /\ Commit(ReadAll(St, {s}))
    /\ last' = [op |-> "read", sig |-> s]
    /\ UNCHANGED <<wasStack, created, firstReads>>
    /\ UNCHANGED <<lexVars, listVars, compVars, subscription, fnKind, disposed, promise>>

NextTrack ==
    \/ \E e \in Watchers, k \in {"read", "throw", "dispose"} : CreateWatcher(e, k)
    \/ CreateComputed
    \/ \E s \in Sources, v \in Values : Set(s, v)
    \/ \E s \in Sources : Read(s)

\* ---- subscribe and unsubscribe ----
NextSub ==
    \/ \E f \in Subscribers, s \in Sources : Subscribe(f, s)
    \/ \E f \in Subscribers, s \in Sources : Unsubscribe(f, s)
    \/ \E s \in Sources, v \in Values : Set(s, v)

\* ---- resource ----
\* resource(loader): data = signal(null); loader().then(...); return data
CreateResource ==
    /\ promise.status = "none"
    /\ promise' = [status |-> "pending", value |-> Null]
    /\ val' = [val EXCEPT ![Resource] = Null]
    /\ inv' = NoInv
    /\ last' = [op |-> "resource"]
    /\ UNCHANGED <<subs, isBatching, pending, wasStack, activeWatch, activeComputed,
                   created, lastReads, firstReads, disposed>>
    /\ UNCHANGED <<lexVars, listVars, compVars, subscription, fnKind>>

\* the loader's promise is resolved with r: the then-callback is queued as a microtask
PromiseResolve(r) ==
    /\ promise.status = "pending"
    /\ promise' = [status |-> "fulfilled", value |-> r]
    /\ inv' = NoInv
    /\ last' = [op |-> "resolve"]
    /\ UNCHANGED <<val, subs, isBatching, pending, wasStack, activeWatch, activeComputed,
                   created, lastReads, firstReads, disposed>>
    /\ UNCHANGED <<lexVars, listVars, compVars, subscription, fnKind>>

\* the loader's promise is rejected: no rejection handler was registered
PromiseReject ==
    /\ promise.status = "pending"
    /\ promise' = [status |-> "rejected", value |-> Null]
    /\ inv' = NoInv
    /\ last' = [op |-> "reject"]
    /\ UNCHANGED <<val, subs, isBatching, pending, wasStack, activeWatch, activeComputed,
                   created, lastReads, firstReads, disposed>>
    /\ UNCHANGED <<lexVars, listVars, compVars, subscription, fnKind>>

\* the microtask runs once the call stack is empty, so no batch(fn) call is open
ThenCallback ==
    /\ promise.status = "fulfilled"
    /\ wasStack = <<>>
    /\ Commit(ResourceThen(St, promise.value))
    /\ promise' = [promise EXCEPT !.status = "delivered"]
    /\ last' = [op |-> "then", subsBefore |-> subs[Resource]]
    /\ UNCHANGED <<wasStack, created, firstReads, disposed>>
    /\ UNCHANGED <<lexVars, listVars, compVars, subscription, fnKind>>

NextResource ==
    \/ CreateResource
    \/ \E r \in {Null, "x", "y"} : PromiseResolve(r)   \* what the loader resolves with
    \/ PromiseReject
    \/ ThenCallback
    \/ \E f \in Plain, s \in Sources \cup {Resource} : Subscribe(f, s)
    \/ \E s \in Sources, v \in Values : Set(s, v)
    \/ BatchEnter
    \/ BatchExit


\* ------------------------------------------------------------------
\* List reconcilers  (src/src/runtime.ts, each and eachKeyed)
\* ------------------------------------------------------------------
MaxListLen == 2

NoId == -1                     \* the item has no id field
Ids == {1, 2}
Objs == {"o1", "o2"}           \* object identities: Object.is compares references
Items == [id : Ids \cup {NoId}, obj : Objs]
Marker == 0                    \* the each-marker comment node

\* val.id ?? i
Key(item, idx) == IF item.id = NoId THEN idx ELSE item.id
Keys(arr) == {Key(arr[n], n - 1) : n \in 1..Len(arr)}
DistinctKeys(arr) == Cardinality(Keys(arr)) = Len(arr)
Lists == {arr \in UNION {[1..n -> Items] : n \in 0..MaxListLen} : DistinctKeys(arr)}
KeyedLists == {arr \in Lists : \A n \in 1..Len(arr) : arr[n].id # NoId}

Put(m, k, r) == [x \in DOMAIN m \cup {k} |-> IF x = k THEN r ELSE m[x]]
Restrict(m, ks) == [x \in DOMAIN m \cap ks |-> m[x]]
NodesOf(m) == {m[k].node : k \in DOMAIN m}
Range(s) == {s[n] : n \in 1..Len(s)}
Without(s, ns) == SelectSeq(s, LAMBDA x : x \notin ns)
\* a node identity that no node alive during this operation has
FreshNode(used) == CHOOSE n \in 1..(Cardinality(used) + 1) : n \notin used

\* ---- each ----
Es == [lookup |-> lookup, dom |-> dom, rendered |-> <<>>, avoid |-> NodesOf(lookup)]

\* parent.insertBefore(node, marker)
RECURSIVE InsertBefore(_, _, _)
InsertBefore(d, n, m) ==
    IF d = <<>> THEN <<n>>
    ELSE IF Head(d) = m THEN <<n>> \o d
    ELSE <<Head(d)>> \o InsertBefore(Tail(d), n, m)

RECURSIVE EachRun(_, _)
RECURSIVE EachLoop(_, _, _)
RECURSIVE EachSigSet(_, _, _, _, _)

\* an update pass that forgets rec.idx.set(i) (used to test C5)
EachSigSetNoIdx(es, arr, key, field, v) ==
    IF es.lookup[key][field] = v \/ field = "idx" THEN es
    ELSE LET es1 == [es EXCEPT !.lookup[key][field] = v]
         IN  IF es.lookup[key].tracked THEN EachRun(es1, arr) ELSE es1

\* rec.sig.set(v) / rec.idx.set(v): the record's signal notifies its subscribers;
\* the update effect is one of them when render read the signal while it ran
EachSigSet(es, arr, key, field, v) ==
    IF es.lookup[key][field] = v THEN es
    ELSE LET es1 == [es EXCEPT !.lookup[key][field] = v]
         IN  IF es.lookup[key].tracked THEN EachRun(es1, arr) ELSE es1

\* one iteration of "Update or add items"
EachStep(es, arr, n) ==
    LET item == arr[n + 1]
        key == Key(item, n)
    IN  IF key \notin DOMAIN es.lookup THEN
            LET node == FreshNode(es.avoid \cup NodesOf(es.lookup))
            IN  [es EXCEPT
                    !.lookup = Put(@, key, [sig |-> item, idx |-> n, node |-> node,
                                            tracked |-> renderReads]),
                    !.dom = InsertBefore(@, node, Marker),
                    !.rendered = Append(@, key)]
        ELSE EachSigSet(EachSigSet(es, arr, key, "sig", item), arr, key, "idx", n)

EachLoop(es, arr, n) ==
    IF n >= Len(arr) THEN es ELSE EachLoop(EachStep(es, arr, n), arr, n + 1)

\* a removal that deletes the mapping entry and leaves the node (used to test C7)
EachRemoveKeepsNode(es, arr) == [es EXCEPT !.lookup = Restrict(@, Keys(arr))]

\* "Remove missing nodes"
EachRemove(es, arr) ==
    LET gone == NodesOf(es.lookup) \ NodesOf(Restrict(es.lookup, Keys(arr)))
    IN  [es EXCEPT !.lookup = Restrict(@, Keys(arr)), !.dom = Without(@, gone)]

\* the body of the update effect; it returns early while the marker has no parent
EachRun(es, arr) ==
    IF ~attached THEN es ELSE EachRemove(EachLoop(es, arr, 0), arr)

\* the records of the initial loop of each(): rendered outside the effect
RECURSIVE EachInitial(_, _)
EachInitial(arr, n) ==
    IF n = 0 THEN [x \in {} |-> 0]
    ELSE Put(EachInitial(arr, n - 1), Key(arr[n], n - 1),
             [sig |-> arr[n], idx |-> n - 1, node |-> n, tracked |-> FALSE])

FirstObj == CHOOSE o \in Objs : TRUE

\* the state after each(list, render) has returned [n1, ..., nk, marker]
InitEach ==
    /\ list \in {arr \in Lists : \A n \in 1..Len(arr) : arr[n].obj = FirstObj}
    /\ renderReads \in BOOLEAN
    /\ attached = FALSE
    /\ lookup = EachInitial(list, Len(list))
    /\ dom = [n \in 1..Len(list) |-> n] \o <<Marker>>
    /\ rendered = [n \in 1..Len(list) |-> Key(list[n], n - 1)]
    /\ currentMap = <<>> /\ output = <<>> /\ inDoc = {}
    /\ src = <<>> /\ i = 0 /\ braceDepth = 0 /\ out = <<>> /\ lpc = "idle"
    /\ val = InitVal
    /\ subs = [s \in Signals |-> {}]
    /\ isBatching = FALSE
    /\ pending = <<>>
    /\ wasStack = <<>>
    /\ activeWatch = Null
    /\ activeComputed = Null
    /\ created = {}
    /\ lastReads = [c \in {Rerun} \cup Watchers |-> {}]
    /\ firstReads = [c \in {Rerun} \cup Watchers |-> {}]
    /\ inv = NoInv
    /\ last = [op |-> "none"]
    /\ disposed = {}
    /\ promise = NoPromise
    /\ subscription = NoSubscription /\ fnKind = [e \in Watchers |-> "read"]
    /\ template = <<>> /\ ast = <<>> /\ code = <<>> /\ cpc = "idle"
    /\ thrown = Null /\ variant = "merge"
    /\ argAfter = <<>> /\ inlined = <<>>

\* the nodes returned by each() are appended to a parent element
Attach ==
    /\ ~attached
    /\ attached' = TRUE
    /\ rendered' = <<>>
    /\ UNCHANGED <<list, lookup, dom, currentMap, output, inDoc, renderReads>>
    /\ UNCHANGED <<lexVars, reactVars, compVars>>

\* list.set(arr) with a new array: the update effect runs
ListSet(arr) ==
    /\ list' = arr
    /\ LET es == [EachRun(Es, arr) EXCEPT !.avoid = {}]
       IN  /\ lookup' = es.lookup
           /\ dom' = es.dom
           /\ rendered' = es.rendered
    /\ UNCHANGED <<attached, currentMap, output, inDoc, renderReads>>
    /\ UNCHANGED <<lexVars, reactVars, compVars>>

NextEach ==
    \/ Attach
    \/ \E arr \in Lists : ListSet(arr)

\* ---- eachKeyed ----
Ks == [map |-> currentMap, output |-> output, inDoc |-> inDoc, rendered |-> <<>>,
       avoid |-> NodesOf(currentMap) \cup Range(output)]

\* output[n] = node, n being at most output.length
SetAt(s, n, x) == IF n + 1 > Len(s) THEN Append(s, x) ELSE [s EXCEPT ![n + 1] = x]

RECURSIVE KeyedRun(_, _)
RECURSIVE KeyedLoop(_, _, _)
RECURSIVE KeyedSigSet(_, _, _, _, _)

KeyedSigSet(ks, arr, key, field, v) ==
    IF ks.map[key][field] = v THEN ks
    ELSE LET ks1 == [ks EXCEPT !.map[key][field] = v]
         IN  IF ks.map[key].tracked THEN KeyedRun(ks1, arr) ELSE ks1

KeyedStep(ks, arr, n) ==
    LET it == arr[n + 1]
        key == it.id
    IN  IF key \notin DOMAIN ks.map THEN
            LET node == FreshNode(ks.avoid \cup NodesOf(ks.map) \cup Range(ks.output))
            IN  [ks EXCEPT
                    !.map = Put(@, key, [item |-> it, index |-> n, node |-> node,
                                         tracked |-> renderReads]),
                    !.rendered = Append(@, key),
                    !.output = SetAt(@, n, node)]
        ELSE LET ks1 == KeyedSigSet(KeyedSigSet(ks, arr, key, "item", it),
                                    arr, key, "index", n)
             IN  [ks1 EXCEPT !.output = SetAt(@, n, ks.map[key].node)]

KeyedLoop(ks, arr, n) ==
    IF n >= Len(arr) THEN ks ELSE KeyedLoop(KeyedStep(ks, arr, n), arr, n + 1)

\* "remove old ones that disappeared"
KeyedRemove(ks, arr) ==
    LET visited == {arr[n].id : n \in 1..Len(arr)}
        gone == NodesOf(ks.map) \ NodesOf(Restrict(ks.map, visited))
    IN  [ks EXCEPT !.map = Restrict(@, visited), !.inDoc = @ \ gone]

\* output.forEach((node) => { if (!node.parentNode) document.body.append(node) })
KeyedAppend(ks) == [ks EXCEPT !.inDoc = @ \cup Range(ks.output)]

\* the body of the effect of eachKeyed
KeyedRun(ks, arr) == KeyedAppend(KeyedRemove(KeyedLoop(ks, arr, 0), arr))

\* the state after eachKeyed(list, render) has returned: the effect has run once
InitKeyed ==
    /\ list \in {arr \in KeyedLists : \A n \in 1..Len(arr) : arr[n].obj = FirstObj}
    /\ renderReads \in BOOLEAN
    /\ LET ks == KeyedRun([map |-> <<>>, output |-> <<>>, inDoc |-> {},
                           rendered |-> <<>>, avoid |-> {}], list)
       IN  /\ currentMap = ks.map
           /\ output = ks.output
           /\ inDoc = ks.inDoc
           /\ rendered = ks.rendered
    /\ attached = FALSE /\ lookup = <<>> /\ dom = <<>>
    /\ src = <<>> /\ i = 0 /\ braceDepth = 0 /\ out = <<>> /\ lpc = "idle"
    /\ val = InitVal
    /\ subs = [s \in Signals |-> {}]
    /\ isBatching = FALSE
    /\ pending = <<>>
    /\ wasStack = <<>>
    /\ activeWatch = Null
    /\ activeComputed = Null
    /\ created = {}
    /\ lastReads = [c \in {Rerun} \cup Watchers |-> {}]
    /\ firstReads = [c \in {Rerun} \cup Watchers |-> {}]
    /\ inv = NoInv
    /\ last = [op |-> "none"]
    /\ disposed = {}
    /\ promise = NoPromise
    /\ subscription = NoSubscription /\ fnKind = [e \in Watchers |-> "read"]
    /\ template = <<>> /\ ast = <<>> /\ code = <<>> /\ cpc = "idle"
    /\ thrown = Null /\ variant = "merge"
    /\ argAfter = <<>> /\ inlined = <<>>

\* list.set(arr) with a new array: the effect of eachKeyed runs
KeyedListSet(arr) ==
    /\ list' = arr
    /\ LET ks == KeyedRun(Ks, arr)
       IN  /\ currentMap' = ks.map
           /\ output' = ks.output
           /\ inDoc' = ks.inDoc
           /\ rendered' = ks.rendered
    /\ UNCHANGED <<attached, lookup, dom, renderReads>>
    /\ UNCHANGED <<lexVars, reactVars, compVars>>

NextKeyed == \E arr \in KeyedLists : KeyedListSet(arr)

\* ------------------------------------------------------------------
\* Strings of generated code
\* ------------------------------------------------------------------
\* Array.prototype.join
RECURSIVE Join(_, _)
Join(parts, sep) ==
    IF parts = <<>> THEN <<>>
    ELSE IF Len(parts) = 1 THEN parts[1]
    ELSE parts[1] \o sep \o Join(Tail(parts), sep)

\* .filter(Boolean) on an array of strings: the empty strings are dropped
NonEmpty(parts) == SelectSeq(parts, LAMBDA x : x # <<>>)

CommaSpace == <<",", " ">>

\* JSON.stringify of a string: Escape(c) is what it writes for one character
JSONStringify(s) ==
    LET Escape(c) ==
            IF c = "\"" THEN <<"\\", "\"">>
            ELSE IF c = "\\" THEN <<"\\", "\\">>
            ELSE IF c = "\n" THEN <<"\\", "n">>
            ELSE <<c>>
        RECURSIVE EscapeAll(_)
        EscapeAll(t) == IF t = <<>> THEN <<>> ELSE Escape(Head(t)) \o EscapeAll(Tail(t))
    IN  <<"\"">> \o EscapeAll(s) \o <<"\"">>

\* "${k}": a key between double quotes, not escaped
Quoted(k) == <<"\"">> \o k \o <<"\"">>

\* /^\{.*\}$/.test(v): the dot matches no line break
IsBraced(v) ==
    /\ Len(v) >= 2
    /\ v[1] = "{" /\ v[Len(v)] = "}"
    /\ \A n \in 2..(Len(v) - 1) : v[n] # "\n"

\* v.slice(1, -1).trim()
Unbrace(v) == Trim(Slice(v, 1, Len(v) - 1))

\* ------------------------------------------------------------------
\* Parser  (src/src/compiler/parser.ts)
\* ------------------------------------------------------------------
\* the value null of an attribute
NullAttr == <<Null>>

Text(v) == [type |-> "Text", value |-> v]
Expression(c) == [type |-> "Expression", code |-> c]
Element(tag, attrs, children) ==
    [type |-> "Element", tag |-> tag, attrs |-> attrs, children |-> children]

\* peek()?.type
TypeAt(ts, p) == IF p < Len(ts) THEN ts[p + 1].type ELSE Undef

\* the number a string of digits denotes
RECURSIVE Num(_)
Num(k) ==
    IF k = <<>> THEN 0
    ELSE 10 * Num(SubSeq(k, 1, Len(k) - 1))
         + (CHOOSE d \in 0..9 : <<"0", "1", "2", "3", "4", "5", "6", "7", "8", "9">>[d + 1] = k[Len(k)])

\* attrs[name] = val; attrs is kept as the sequence Object.entries returns.
\* A key that is an array index (IsIndexKey) is enumerated before the other
\* keys, in ascending order, whatever the insertion order; InsertKey gives the
\* position a new key takes
SetAttr(attrs, name, value) ==
    LET IsIndexKey(k) ==
            /\ k # <<>>
            /\ \A n \in 1..Len(k) : k[n] \in Digits
            /\ Len(k) = 1 \/ k[1] # "0"
        RECURSIVE InsertKey(_, _)
        InsertKey(as, e) ==
            IF as = <<>> THEN <<e>>
            ELSE IF IsIndexKey(e.k) /\ (~IsIndexKey(Head(as).k) \/ Num(e.k) < Num(Head(as).k))
                 THEN <<e>> \o as
            ELSE <<Head(as)>> \o InsertKey(Tail(as), e)
    IN  IF \E n \in 1..Len(attrs) : attrs[n].k = name
        THEN [n \in 1..Len(attrs) |->
                IF attrs[n].k = name THEN [k |-> name, v |-> value] ELSE attrs[n]]
        ELSE InsertKey(attrs, [k |-> name, v |-> value])

\* buildInlineProps(attrs); InlineProp is one iteration of its loop
BuildInlineProps(attrs) ==
    LET InlineProp(e) ==
            IF e.v = NullAttr \/ e.v = <<>> THEN Quoted(e.k) \o <<":", "n", "u", "l", "l">>
            ELSE IF IsBraced(e.v) THEN Quoted(e.k) \o <<":", "(">> \o Unbrace(e.v) \o <<")">>
            ELSE Quoted(e.k) \o <<":">> \o JSONStringify(e.v)
    IN  <<"{">> \o Join([n \in 1..Len(attrs) |-> InlineProp(attrs[n])], <<",">>) \o <<"}">>

\* inline: a parsed element inside a brace expression, as code
RECURSIVE Inline(_)
Inline(n) ==
    IF n.type = "Text" THEN JSONStringify(n.value)
    ELSE IF n.type = "Expression" THEN <<"(">> \o n.code \o <<")">>
    ELSE LET props == BuildInlineProps(n.attrs)
             kids == Join(NonEmpty([c \in 1..Len(n.children) |-> Inline(n.children[c])]),
                          CommaSpace)
             tag == IF n.tag # <<>> /\ n.tag[1] \in Upper THEN n.tag ELSE Quoted(n.tag)
         IN  IF kids # <<>>
             THEN <<"h", "(">> \o tag \o CommaSpace \o props \o CommaSpace \o kids \o <<")">>
             ELSE <<"h", "(">> \o tag \o CommaSpace \o props \o <<")">>

\* the attribute loop of parseElement: [i, attrs] when it is left
RECURSIVE ParseAttrs(_, _, _)
ParseAttrs(ts, p, attrs) ==
    IF ~(p < Len(ts)) THEN [i |-> p, attrs |-> attrs]
    ELSE LET t == ts[p + 1] IN
        IF t.type \in {"eof", "tagOpen", "tagClose", "exprOpen", "text"}
        THEN [i |-> p, attrs |-> attrs]
        ELSE IF t.type = "attrName" THEN
            IF TypeAt(ts, p + 1) = "attrValue"
            THEN ParseAttrs(ts, p + 2, SetAttr(attrs, t.v, ts[p + 2].v))
            ELSE IF TypeAt(ts, p + 1) = "exprOpen" THEN
                LET hasVal == TypeAt(ts, p + 2) = "attrValue"
                    j == IF hasVal THEN p + 3 ELSE p + 2
                    k == IF TypeAt(ts, j) = "exprClose" THEN j + 1 ELSE j
                IN  ParseAttrs(ts, k, SetAttr(attrs, t.v,
                                              IF hasVal THEN ts[p + 3].v ELSE NullAttr))
            ELSE ParseAttrs(ts, p + 1, SetAttr(attrs, t.v, NullAttr))
        ELSE ParseAttrs(ts, p + 1, attrs)

RECURSIVE ParseNodes(_, _, _, _)
RECURSIVE ParseExpr(_, _, _, _)
RECURSIVE ParseElement(_, _)

\* parseNodes without the "!t" test: reading .type of undefined raises (used to
\* test C13)
ParseNodesNoEndTest(ts, p, stopTag, nodes) ==
    IF ~(p < Len(ts)) THEN [i |-> p, nodes |-> nodes, err |-> TRUE]
    ELSE LET t == ts[p + 1] IN
        IF t.type = "eof" THEN [i |-> p, nodes |-> nodes, err |-> FALSE]
        ELSE IF t.type = "tagClose" THEN
            IF t.v = stopTag THEN [i |-> p + 1, nodes |-> nodes, err |-> FALSE]
            ELSE ParseNodes(ts, p + 1, stopTag, nodes)
        ELSE IF t.type = "tagOpen" THEN
            LET r == ParseElement(ts, p)
            IN  IF r.err THEN [i |-> r.i, nodes |-> nodes, err |-> TRUE]
                ELSE ParseNodes(ts, r.i, stopTag, Append(nodes, r.node))
        ELSE IF t.type = "text" THEN ParseNodes(ts, p + 1, stopTag, Append(nodes, Text(t.v)))
        ELSE IF t.type = "exprOpen" THEN
            LET r == ParseExpr(ts, p + 1, 1, <<>>)
            IN  IF r.err THEN [i |-> r.i, nodes |-> nodes, err |-> TRUE]
                ELSE ParseNodes(ts, r.i, stopTag, Append(nodes, r.node))
        ELSE ParseNodes(ts, p + 1, stopTag, nodes)

\* parseNodes(stopTag): [i, nodes, err] when the loop is left; err is set when a
\* statement of the parser raises
ParseNodes(ts, p, stopTag, nodes) ==
    IF ~(p < Len(ts)) THEN [i |-> p, nodes |-> nodes, err |-> FALSE]
    ELSE LET t == ts[p + 1] IN
        IF t.type = "eof" THEN [i |-> p, nodes |-> nodes, err |-> FALSE]
        ELSE IF t.type = "tagClose" THEN
            IF t.v = stopTag THEN [i |-> p + 1, nodes |-> nodes, err |-> FALSE]
            ELSE ParseNodes(ts, p + 1, stopTag, nodes)
        ELSE IF t.type = "tagOpen" THEN
            LET r == ParseElement(ts, p)
            IN  IF r.err THEN [i |-> r.i, nodes |-> nodes, err |-> TRUE]
                ELSE ParseNodes(ts, r.i, stopTag, Append(nodes, r.node))
        ELSE IF t.type = "text" THEN ParseNodes(ts, p + 1, stopTag, Append(nodes, Text(t.v)))
        ELSE IF t.type = "exprOpen" THEN
            LET r == ParseExpr(ts, p + 1, 1, <<>>)
            IN  IF r.err THEN [i |-> r.i, nodes |-> nodes, err |-> TRUE]
                ELSE ParseNodes(ts, r.i, stopTag, Append(nodes, r.node))
        ELSE ParseNodes(ts, p + 1, stopTag, nodes)

\* parseExpr without the branch for a nested element (used to test C22)
ParseExprNoInline(ts, p, depth, parts) ==
    IF ~(p < Len(ts) /\ depth > 0)
    THEN [i |-> p, node |-> Expression(Trim(Join(parts, <<>>))), err |-> FALSE]
    ELSE LET t == ts[p + 1] IN
        IF t.type = "exprOpen" THEN ParseExpr(ts, p + 1, depth + 1, parts)
        ELSE IF t.type = "exprClose" THEN ParseExpr(ts, p + 1, depth - 1, parts)
        ELSE IF t.type \in {"text", "attrValue", "tagClose", "attrName", "tagOpen"}
             THEN ParseExpr(ts, p + 1, depth, Append(parts, t.v))
        ELSE ParseExpr(ts, p + 1, depth, parts)

\* parseExpr: the loop over the tokens of a brace expression
ParseExpr(ts, p, depth, parts) ==
    IF ~(p < Len(ts) /\ depth > 0)
    THEN [i |-> p, node |-> Expression(Trim(Join(parts, <<>>))), err |-> FALSE]
    ELSE LET t == ts[p + 1] IN
        IF t.type = "exprOpen" THEN ParseExpr(ts, p + 1, depth + 1, parts)
        ELSE IF t.type = "exprClose" THEN ParseExpr(ts, p + 1, depth - 1, parts)
        ELSE IF t.type = "tagOpen" THEN
            LET r == ParseElement(ts, p)
            IN  IF r.err THEN [i |-> r.i, node |-> Expression(<<>>), err |-> TRUE]
                ELSE ParseExpr(ts, r.i, depth, Append(parts, Inline(r.node)))
        ELSE IF t.type \in {"text", "attrValue", "tagClose", "attrName"}
             THEN ParseExpr(ts, p + 1, depth, Append(parts, t.v))
        ELSE ParseExpr(ts, p + 1, depth, parts)

\* parseElement: open = eat(); tag = open.name raises when no token is left
ParseElement(ts, p) ==
    IF ~(p < Len(ts)) THEN [i |-> p, node |-> Element(<<>>, <<>>, <<>>), err |-> TRUE]
    ELSE LET a == ParseAttrs(ts, p + 1, <<>>)
             r == ParseNodes(ts, a.i, ts[p + 1].v, <<>>)
         IN  [i |-> r.i, node |-> Element(ts[p + 1].v, a.attrs, r.nodes), err |-> r.err]

\* parse(tokens)
Parse(ts) == ParseNodes(ts, 0, <<Undef>>, <<>>)   \* stopTag is undefined

\* ------------------------------------------------------------------
\* Optimizer  (src/unnamed/part_004: the file holds two definitions of optimize,
\* "fold" at lines 3-40 and "merge" at lines 44-66)
\* ------------------------------------------------------------------
\* /^[\d+\-*/ ().]+$/.test(code)
NumericCode(c) ==
    /\ c # <<>>
    /\ \A n \in 1..Len(c) : c[n] \in Digits \cup {"+", "-", "*", "/", " ", "(", ")", "."}

\* String(Function(`"use strict";return (${code});`)()) for the numeric codes the
\* templates and trees of the model hold, which are made of digits, "/" and
\* spaces: an integer literal, an exact quotient of two integer literals, or a
\* regular-expression literal of digits and spaces; every other such code is a
\* syntax error (ok = FALSE).  IsDecimal: a decimal integer literal of
\* strict-mode code; ToDigits: String(n) for a natural number; Slashes: the
\* positions of "/"
EvalNumeric(c) ==
    LET IsDecimal(x) ==
            /\ x # <<>>
            /\ \A n \in 1..Len(x) : x[n] \in Digits
            /\ Len(x) = 1 \/ x[1] # "0"
        RECURSIVE ToDigits(_)
        ToDigits(n) ==
            LET d == <<"0", "1", "2", "3", "4", "5", "6", "7", "8", "9">>[(n % 10) + 1]
            IN  IF n < 10 THEN <<d>> ELSE Append(ToDigits(n \div 10), d)
        Slashes(x) == {n \in 1..Len(x) : x[n] = "/"}
        t == Trim(c)
        p == CHOOSE n \in Slashes(t) : TRUE
        num == Slice(t, 0, p - 1)
        den == Slice(t, p, Len(t))
    IN  IF IsDecimal(t) THEN [ok |-> TRUE, value |-> ToDigits(Num(t))]
        ELSE IF /\ Cardinality(Slashes(t)) = 1
                /\ IsDecimal(num) /\ IsDecimal(den)
                /\ Num(den) # 0 /\ Num(num) % Num(den) = 0
             THEN [ok |-> TRUE, value |-> ToDigits(Num(num) \div Num(den))]
        ELSE IF /\ Len(t) >= 3
                /\ Slashes(t) = {1, Len(t)}
                /\ \A n \in 2..(Len(t) - 1) : t[n] \in Digits \cup {" "}
             THEN [ok |-> TRUE, value |-> t]
        ELSE [ok |-> FALSE, value |-> <<>>]

\* last.value += node.value
MergeLast(o, node) == [o EXCEPT ![Len(o)].value = @ \o node.value]
LastIsText(o) == o # <<>> /\ o[Len(o)].type = "Text"

RECURSIVE Optimize(_, _)

\* one iteration of the loop of optimize, lines 6-37 of the "fold" definition
FoldStep(o, node) ==
    IF node.type = "Element"
    THEN Append(o, [node EXCEPT !.children = Optimize("fold", node.children)])
    ELSE IF node.type = "Text" /\ Trim(node.value) = <<>> THEN o
    ELSE IF node.type = "Text" /\ LastIsText(o) THEN MergeLast(o, node)
    ELSE IF node.type = "Expression" /\ NumericCode(node.code) /\ EvalNumeric(node.code).ok
         THEN Append(o, Text(EvalNumeric(node.code).value))
    ELSE Append(o, node)

\* an iteration that pushes every node (used to test C24)
MergeStepNoMerge(o, node) ==
    IF node.type = "Element"
    THEN Append(o, [node EXCEPT !.children = Optimize("merge", node.children)])
    ELSE Append(o, node)

\* one iteration of the loop of optimize, lines 47-63 of the "merge" definition
MergeStep(o, node) ==
    IF node.type = "Element"
    THEN Append(o, [node EXCEPT !.children = Optimize("merge", node.children)])
    ELSE IF node.type = "Text" /\ LastIsText(o) THEN MergeLast(o, node)
    ELSE Append(o, node)

RECURSIVE OptLoop(_, _, _)
OptLoop(vr, nodes, o) ==
    IF nodes = <<>> THEN o
    ELSE OptLoop(vr, Tail(nodes),
                 IF vr = "fold" THEN FoldStep(o, Head(nodes)) ELSE MergeStep(o, Head(nodes)))

\* optimize(ast)
Optimize(vr, nodes) == OptLoop(vr, nodes, <<>>)

\* the argument of optimize(nodes) as the call leaves it.  out.push(node) puts the
\* Text objects of nodes themselves into out, so last.value += node.value writes
\* into a node of the argument whenever the last of out is one of them; an
\* Element is pushed as a copy, its children are the argument of the inner call.
\* lastIn: the index in nodes of the Text object that is last in out, 0 when the
\* last of out is a Text the call made itself, -1 when it is no Text
RECURSIVE OptimizeArg(_, _)
OptimizeArg(vr, nodes) ==
    LET RECURSIVE Walk(_, _, _)
        Walk(arg, n, lastIn) ==
            IF n > Len(nodes) THEN arg
            ELSE LET node == nodes[n]
                 IN  IF node.type = "Element"
                     THEN Walk([arg EXCEPT ![n].children = OptimizeArg(vr, @)], n + 1, -1)
                     ELSE IF vr = "fold" /\ node.type = "Text" /\ Trim(node.value) = <<>>
                          THEN Walk(arg, n + 1, lastIn)
                     ELSE IF node.type = "Text" /\ lastIn >= 0
                          THEN Walk(IF lastIn > 0
                                    THEN [arg EXCEPT ![lastIn].value = @ \o node.value]
                                    ELSE arg,
                                    n + 1, lastIn)
                     ELSE IF /\ vr = "fold" /\ node.type = "Expression"
                             /\ NumericCode(node.code) /\ EvalNumeric(node.code).ok
                          THEN Walk(arg, n + 1, 0)
                     ELSE Walk(arg, n + 1, IF node.type = "Text" THEN n ELSE -1)
    IN  Walk(nodes, 1, -1)

\* ------------------------------------------------------------------
\* Code generator  (src/src/compiler/codegen.ts, second definition of generate)
\* ------------------------------------------------------------------
\* case "Text"; CollapseWs is value.replace(/\s+/g, " ")
GenText(value) ==
    LET RECURSIVE CollapseWs(_)
        CollapseWs(s) ==
            IF s = <<>> THEN <<>>
            ELSE IF Head(s) \in Whitespace
                 THEN <<" ">> \o CollapseWs(Slice(s, ReadWhile(s, 0, Whitespace), Len(s)))
            ELSE <<Head(s)>> \o CollapseWs(Tail(s))
        v0 == CollapseWs(value)
        lead == value # <<>> /\ value[1] \in Whitespace
        trail == value # <<>> /\ value[Len(value)] \in Whitespace
        v1 == IF lead /\ ~(v0 # <<>> /\ v0[1] = " ") THEN <<" ">> \o v0 ELSE v0
        v2 == IF trail /\ ~(v1 # <<>> /\ v1[Len(v1)] = " ") THEN v1 \o <<" ">> ELSE v1
    IN  IF Trim(v2) = <<>> THEN <<>> ELSE JSONStringify(v2)

\* buildProps(attrs); Prop is one iteration of its loop
BuildProps(attrs) ==
    LET Prop(e) ==
            IF e.v = NullAttr \/ e.v = <<>> THEN Quoted(e.k) \o <<":", "t", "r", "u", "e">>
            ELSE IF Len(e.k) >= 3 /\ SubSeq(e.k, 1, 3) = <<"o", "n", ":">>  \* key.startsWith("on:")
                 THEN Quoted(e.k) \o <<":">> \o (IF IsBraced(e.v) THEN Unbrace(e.v) ELSE e.v)
            ELSE IF IsBraced(e.v) THEN Quoted(e.k) \o <<":", "(">> \o Unbrace(e.v) \o <<")">>
            ELSE Quoted(e.k) \o <<":">> \o JSONStringify(e.v)
    IN  <<"{">> \o Join([n \in 1..Len(attrs) |-> Prop(attrs[n])], <<",">>) \o <<"}">>

\* gen(n)
RECURSIVE Gen(_)
Gen(n) ==
    IF n.type = "Text" THEN GenText(n.value)
    ELSE IF n.type = "Expression" THEN <<"(">> \o n.code \o <<")">>
    ELSE LET props == BuildProps(n.attrs)
             children == Join(NonEmpty([c \in 1..Len(n.children) |-> Gen(n.children[c])]),
                              CommaSpace)
         IN  IF children # <<>>
             THEN <<"h", "(">> \o JSONStringify(n.tag) \o CommaSpace \o props
                     \o CommaSpace \o children \o <<")">>
             ELSE <<"h", "(">> \o JSONStringify(n.tag) \o CommaSpace \o props \o <<")">>

\* gen(n) of the generate of src/unnamed/part_012; Prop is one iteration of the
\* loop of its buildProps, c is n.code.trim(); its Text case (lines 96-109) gives
\* what the one of codegen.ts gives for the characters of the model
RECURSIVE GenAlt(_)
GenAlt(n) ==
    LET Prop(e) ==
            IF e.v = NullAttr \/ e.v = <<>> THEN Quoted(e.k) \o <<":", "n", "u", "l", "l">>
            ELSE IF Len(e.v) > 1 /\ e.v[1] = "{" /\ e.v[Len(e.v)] = "}"
                 THEN Quoted(e.k) \o <<":">> \o Trim(SubSeq(e.v, 2, Len(e.v) - 1))
            ELSE IF \/ Len(e.k) >= 2 /\ SubSeq(e.k, 1, 2) = <<"o", "n">>
                    \/ Len(e.k) > 3 /\ e.k[3] = ":"
                 THEN Quoted(e.k) \o <<":">> \o e.v
            ELSE Quoted(e.k) \o <<":">> \o JSONStringify(e.v)
        props == <<"{">> \o Join([k \in 1..Len(n.attrs) |-> Prop(n.attrs[k])], <<",">>) \o <<"}">>
        c == Trim(n.code)
        childStr == Join(NonEmpty([k \in 1..Len(n.children) |-> GenAlt(n.children[k])]),
                         CommaSpace)
        tagExpr == IF n.tag # <<>> /\ n.tag[1] \in Upper THEN n.tag ELSE JSONStringify(n.tag)
    IN  IF n.type = "Text" THEN GenText(n.value)
        ELSE IF n.type = "Expression"
             THEN IF c = <<>> THEN <<>>
                  ELSE IF Len(c) >= 2 /\ c[1] = "(" /\ c[Len(c)] = ")" THEN c
                  ELSE <<"(">> \o c \o <<")">>
        ELSE IF childStr # <<>>
             THEN <<"h", "(">> \o tagExpr \o CommaSpace \o props \o CommaSpace \o childStr \o <<")">>
        ELSE <<"h", "(">> \o tagExpr \o CommaSpace \o props \o <<")">>

\* a top-level rule that brackets a single part as well (used to test C18)
GenerateAlwaysList(nodes) ==
    LET parts == NonEmpty([n \in 1..Len(nodes) |-> Gen(nodes[n])])
    IN  IF Len(parts) = 0 THEN <<"n", "u", "l", "l">>
        ELSE <<"[">> \o Join(parts, CommaSpace) \o <<"]">>

\* generate(nodes)
Generate(nodes) ==
    LET parts == NonEmpty([n \in 1..Len(nodes) |-> Gen(nodes[n])])
    IN  IF Len(parts) = 0 THEN <<"n", "u", "l", "l">>
        ELSE IF Len(parts) = 1 THEN parts[1]
        ELSE <<"[">> \o Join(parts, CommaSpace) \o <<"]">>

\* ------------------------------------------------------------------
\* compile  (src/src/compiler/compile.ts)
\* ------------------------------------------------------------------
\* templates written out in full, next to the enumerated ones
InputTemplate ==
    <<"<", "i", "n", "p", "u", "t", " ", "v", "a", "l", "u", "e", "=", "{",
      "c", "o", "u", "n", "t", "}", " ", "d", "i", "s", "a", "b", "l", "e",
      "d", ">">>
ButtonTemplate ==
    <<"<", "M", "y", "B", "u", "t", "t", "o", "n", " ", "l", "a", "b", "e",
      "l", "=", "\"", "S", "a", "v", "e", "\"", " ", "o", "n", "C", "l",
      "i", "c", "k", "=", "{", "h", "a", "n", "d", "l", "e", "S", "a", "v",
      "e", "}", ">", "C", "l", "i", "c", "k", " ", "m", "e", "<", "/", "M",
      "y", "B", "u", "t", "t", "o", "n", ">">>
QuoteTemplate ==
    <<"<", "p", ">", "\"", "a", "\"", "\n", "<", "/", "p">>
EachTemplate ==
    <<"<", "u", "l", ">", "{", "e", "a", "c", "h", "(", "t", "o",
      "d", "o", "s", ",", " ", "(", "i", "t", "e", "m", ",", " ",
      "i", ")", " ", "=", ">", " ", "<", "l", "i", ">", "{", "i",
      "}", ":", " ", "{", "i", "t", "e", "m", "}", "<", "/", "l",
      "i", ">", ")", "}", "<", "/", "u", "l", ">">>
DataTemplate ==
    <<"<", "d", "i", "v", " ", "d", "a", "t", "a", "=", "{", "{",
      " ", "i", "d", ":", " ", "u", "s", "e", "r", ".", "i", "d",
      ",", " ", "n", "a", "m", "e", ":", " ", "{", " ", "f", "i",
      "r", "s", "t", ":", " ", "'", "x", "'", " ", "}", " ", "}",
      "}", ">">>
\* the enumerated templates; the templates of the tests; an expression and a
\* braced attribute value around every short text of braces, "a" and spaces;
\* self-closing tags with each form of attribute, followed by text or a tag;
\* an expression with an element between two pieces of code
Templates ==
    LET Inner == UNION {[1..k -> {"{", "}", "a", " "}] : k \in 0..MaxSrcLen}
        Attrs == {<<>>, <<" ">>, <<" ", "b">>, <<" ", "b", "=", "'", "c", "'">>,
                  <<" ", "b", "=", "{", "c", "}">>, <<" ", "b", "=", "c">>}
        Rest == {<<>>, <<"d">>, <<"<", "e", ">">>}
        Code == {<<>>, <<"f", "(">>, <<")">>, <<" ", "c", " ">>}
    IN  Strings(MaxSrcLen)
        \cup {InputTemplate, ButtonTemplate, QuoteTemplate, EachTemplate, DataTemplate}
        \cup {<<"{">> \o x \o <<"}">> : x \in Inner}
        \cup {<<"<", "a", " ", "b", "=", "{">> \o x \o <<"}", ">", "d">> : x \in Inner}
        \cup {<<"<", "a">> \o x[1] \o <<"/", ">">> \o x[2] : x \in Attrs \X Rest}
        \cup {<<"{">> \o x[1] \o <<"<", "a", ">">> \o x[2] \o <<"<", "/", "a", ">">>
                \o x[3] \o <<"}">> : x \in Code \X {<<>>, <<"b">>} \X Code}

\* a template the pre-pass of compile leaves alone: arrowPattern needs "=>"
\* before a ";" or a line break, the scan loop needs the word "return", and the
\* component test needs the word "export" or "import"
PlainTemplate(t) ==
    LET HasSub(w) == \E p \in 0..(Len(t) - Len(w)) : Slice(t, p, p + Len(w)) = w
    IN
    /\ ~(HasSub(<<"=", ">">>) /\ (HasSub(<<";">>) \/ HasSub(<<"\n">>)))
    /\ ~HasSub(<<"r", "e", "t", "u", "r", "n">>)
    /\ ~HasSub(<<"p", "o", "r", "t">>)

\* template.replace(/"/g, '\\"').replace(/\r?\n/g, "\\n")
RECURSIVE Safe(_)
Safe(t) ==
    IF t = <<>> THEN <<>>
    ELSE (IF Head(t) = "\"" THEN <<"\\", "\"">>
          ELSE IF Head(t) = "\n" THEN <<"\\", "n">>
          ELSE <<Head(t)>>) \o Safe(Tail(t))

\* a catch block that raises the exception again (used to test C14)
CatchRethrow(t) == [cpc |-> "raised", code |-> <<>>]

\* the catch block of compile: return `h("pre",null,"${safe}")`
Catch(t) ==
    [cpc |-> "done",
     code |-> <<"h", "(", "\"", "p", "r", "e", "\"", ",", "n", "u", "l", "l", ",", "\"">>
              \o Safe(t) \o <<"\"", ")">>]

\* compile(template) is called without options: the pre-pass leaves a plain
\* template alone, isComp is false, and tokenize(template) is entered
CompileEnter ==
    /\ cpc = "start"
    /\ cpc' = "tokenize"
    /\ src' = template /\ i' = 0 /\ braceDepth' = 0 /\ out' = <<>> /\ lpc' = "run"
    /\ UNCHANGED <<template, ast, code, thrown, variant, argAfter, inlined>>
    /\ UNCHANGED <<reactVars, listVars>>

\* const ast = parse(tokens)
CompileParse ==
    /\ cpc = "tokenize" /\ lpc = "done"
    /\ LET r == Parse(out)
       IN  IF r.err
           THEN /\ thrown' = "parse"
                /\ cpc' = Catch(template).cpc
                /\ code' = Catch(template).code
                /\ ast' = ast
           ELSE /\ ast' = r.nodes
                /\ cpc' = "parsed"
                /\ UNCHANGED <<code, thrown>>
    /\ UNCHANGED <<template, variant, argAfter, inlined>>
    /\ UNCHANGED <<lexVars, reactVars, listVars>>

\* const optimized = optimize(ast)
CompileOptimize ==
    /\ cpc = "parsed"
    /\ ast' = Optimize(variant, ast)
    /\ cpc' = "optimized"
    /\ UNCHANGED <<template, code, thrown, variant, argAfter, inlined>>
    /\ UNCHANGED <<lexVars, reactVars, listVars>>

\* const expr = generate(optimized); return expr
CompileGenerate ==
    /\ cpc = "optimized"
    /\ code' = Generate(ast)
    /\ cpc' = "done"
    /\ UNCHANGED <<template, ast, thrown, variant, argAfter, inlined>>
    /\ UNCHANGED <<lexVars, reactVars, listVars>>

\* the stage that is running raises (the engine's call stack or memory is
\* exhausted): control passes to the catch block
CompileThrow ==
    /\ cpc \in {"tokenize", "parsed", "optimized"}
    /\ thrown' = cpc
    /\ cpc' = Catch(template).cpc
    /\ code' = Catch(template).code
    /\ lpc' = "idle"
    /\ UNCHANGED <<template, ast, variant, argAfter, inlined>>
    /\ UNCHANGED <<src, i, braceDepth, out, reactVars, listVars>>

NextCompile ==
    \/ CompileEnter
    \/ LexExprOpen
    \/ LexExprClose
    \/ LexTagClose
    \/ LexTagOpen
    \/ LexText
    \/ LexEof
    \/ CompileParse
    \/ CompileOptimize
    \/ CompileGenerate
    \/ CompileThrow

\* ---- optimize and generate called on a tree, as the tests do ----
MaxAstLen == 2

\* one element with one or two attributes, as wrap(attrs) of the tests builds it
AttrAsts ==
    LET AttrKeys == {<<"a">>, <<"b">>}
        AttrVals == {NullAttr, <<>>, <<"a">>, <<"{", "a", "}">>, <<"{", " ", "a", "}">>, <<"\"">>}
        AttrLists ==
            {<<[k |-> k1, v |-> v1]>> : <<k1, v1>> \in AttrKeys \X AttrVals} \cup
            {<<[k |-> x[1], v |-> x[2]], [k |-> x[3], v |-> x[4]]>> :
                x \in {y \in AttrKeys \X AttrVals \X AttrKeys \X AttrVals : y[1] # y[3]}}
    IN  {<<Element(tag, attrs, <<>>)>> : <<tag, attrs>> \in {<<"x">>, <<"X">>} \X AttrLists}

\* the trees the calls are made on: sequences of Text and Expression leaves
\* with at most one element whose children are leaves, and the trees of AttrAsts
Asts ==
    LET Leaves == {Text(v) : v \in {<<"a">>, <<" ">>}}
                  \cup {Expression(c) : c \in {<<"a">>, <<"1">>}}
        LeafLists == UNION {[1..n -> Leaves] : n \in 0..MaxAstLen}
        \* the tree of the test "merges adjacent text nodes"
        Hello == <<Text(    <<"H", "e", "l", "l", "o">>), Text(<<" ">>), Text(    <<"W", "o", "r", "l", "d">>)>>
    IN  LeafLists \cup
        {SubSeq(l, 1, p) \o <<Element(<<"a">>, <<>>, kids)>> \o SubSeq(l, p + 1, Len(l)) :
            <<l, p, kids>> \in {x \in LeafLists \X (0..MaxAstLen) \X LeafLists :
                                  Len(x[1]) < MaxAstLen /\ x[2] <= Len(x[1])}}
        \cup AttrAsts \cup {Hello}

\* optimize(ast) is called on the tree, up to twice in a row
OptimizeCall ==
    /\ cpc \in {"tree", "once"}
    /\ ast' = Optimize(variant, ast)
    /\ argAfter' = OptimizeArg(variant, ast)
    /\ cpc' = IF cpc = "tree" THEN "once" ELSE "twice"
    /\ UNCHANGED <<template, code, thrown, variant, inlined>>
    /\ UNCHANGED <<lexVars, reactVars, listVars>>

\* generate(ast) is called on the tree
GenerateCall ==
    /\ cpc \in {"tree", "once", "twice"}
    /\ code' = Generate(ast)
    /\ cpc' = "generated"
    /\ UNCHANGED <<template, ast, thrown, variant, argAfter, inlined>>
    /\ UNCHANGED <<lexVars, reactVars, listVars>>

\* inline(n) is called on the element that generate was given as its only node
InlineCall ==
    /\ cpc = "generated"
    /\ Len(ast) = 1 /\ ast[1].type = "Element"
    /\ inlined' = Inline(ast[1])
    /\ cpc' = "inlined"
    /\ UNCHANGED <<template, ast, code, thrown, variant, argAfter>>
    /\ UNCHANGED <<lexVars, reactVars, listVars>>

NextAst ==
    \/ OptimizeCall
    \/ GenerateCall
    \/ InlineCall

\* ------------------------------------------------------------------
\* Specifications
\* ------------------------------------------------------------------
\* tokenize(src) has been entered; the other parts are idle
InitLex ==
    /\ src \in Strings(MaxSrcLen)
    /\ i = 0 /\ braceDepth = 0 /\ out = <<>> /\ lpc = "run"
    /\ val = InitVal
    /\ subs = [s \in Signals |-> {}]
    /\ isBatching = FALSE
    /\ pending = <<>>
    /\ wasStack = <<>>
    /\ activeWatch = Null
    /\ activeComputed = Null
    /\ created = {}
    /\ lastReads = [c \in {Rerun} \cup Watchers |-> {}]
    /\ firstReads = [c \in {Rerun} \cup Watchers |-> {}]
    /\ inv = NoInv
    /\ last = [op |-> "none"]
    /\ disposed = {}
    /\ promise = NoPromise
    /\ subscription = NoSubscription /\ fnKind = [e \in Watchers |-> "read"]
    /\ template = <<>> /\ ast = <<>> /\ code = <<>> /\ cpc = "idle"
    /\ thrown = Null /\ variant = "merge"
    /\ argAfter = <<>> /\ inlined = <<>>
    /\ list = <<>> /\ attached = FALSE /\ lookup = <<>> /\ dom = <<>>
    /\ currentMap = <<>> /\ output = <<>> /\ inDoc = {} /\ rendered = <<>>
    /\ renderReads = FALSE

NextLex ==
    \/ LexExprOpen
    \/ LexExprClose
    \/ LexTagClose
    \/ LexTagOpen
    \/ LexText
    \/ LexEof

\* compile(template) is about to be called; the build holds one of the two
\* definitions of optimize
InitCompile ==
    /\ template \in {t \in Templates : PlainTemplate(t)}
    /\ variant \in {"fold", "merge"}
    /\ ast = <<>> /\ code = <<>> /\ cpc = "start" /\ thrown = Null
    /\ argAfter = <<>> /\ inlined = <<>>
    /\ src = <<>> /\ i = 0 /\ braceDepth = 0 /\ out = <<>> /\ lpc = "idle"
    /\ val = InitVal
    /\ subs = [s \in Signals |-> {}]
    /\ isBatching = FALSE
    /\ pending = <<>>
    /\ wasStack = <<>>
    /\ activeWatch = Null
    /\ activeComputed = Null
    /\ created = {}
    /\ lastReads = [c \in {Rerun} \cup Watchers |-> {}]
    /\ firstReads = [c \in {Rerun} \cup Watchers |-> {}]
    /\ inv = NoInv
    /\ last = [op |-> "none"]
    /\ disposed = {}
    /\ promise = NoPromise
    /\ subscription = NoSubscription /\ fnKind = [e \in Watchers |-> "read"]
    /\ list = <<>> /\ attached = FALSE /\ lookup = <<>> /\ dom = <<>>
    /\ currentMap = <<>> /\ output = <<>> /\ inDoc = {} /\ rendered = <<>>
    /\ renderReads = FALSE

\* a tree is about to be given to optimize or generate
InitAst ==
    /\ ast \in Asts
    /\ variant \in {"fold", "merge"}
    /\ template = <<>> /\ code = <<>> /\ cpc = "tree" /\ thrown = Null
    /\ argAfter = <<>> /\ inlined = <<>>
    /\ src = <<>> /\ i = 0 /\ braceDepth = 0 /\ out = <<>> /\ lpc = "idle"
    /\ val = InitVal
    /\ subs = [s \in Signals |-> {}]
    /\ isBatching = FALSE
    /\ pending = <<>>
    /\ wasStack = <<>>
    /\ activeWatch = Null
    /\ activeComputed = Null
    /\ created = {}
    /\ lastReads = [c \in {Rerun} \cup Watchers |-> {}]
    /\ firstReads = [c \in {Rerun} \cup Watchers |-> {}]
    /\ inv = NoInv
    /\ last = [op |-> "none"]
    /\ disposed = {}
    /\ promise = NoPromise
    /\ subscription = NoSubscription /\ fnKind = [e \in Watchers |-> "read"]
    /\ list = <<>> /\ attached = FALSE /\ lookup = <<>> /\ dom = <<>>
    /\ currentMap = <<>> /\ output = <<>> /\ inDoc = {} /\ rendered = <<>>
    /\ renderReads = FALSE

SpecLex == InitLex /\ [][NextLex]_vars
SpecReact == InitReact /\ [][NextReact]_vars
SpecResource == InitReact /\ [][NextResource]_vars
SpecSub == InitReact /\ [][NextSub]_vars
SpecTrack == InitReact /\ [][NextTrack]_vars
SpecEach == InitEach /\ [][NextEach]_vars
SpecKeyed == InitKeyed /\ [][NextKeyed]_vars
SpecCompile == InitCompile /\ [][NextCompile]_vars
SpecAst == InitAst /\ [][NextAst]_vars


\* ------------------------------------------------------------------
\* Claims
\* ------------------------------------------------------------------
EofOnceLast ==
    /\ out # <<>>
    /\ out[Len(out)].type = "eof"
    /\ \A n \in 1..(Len(out) - 1) : out[n].type # "eof"

\* C1: for every input string tokenize terminates, and the token sequence it
\* returns ends with an eof token that occurs exactly once, in last position.
\* Every iteration of the scan loop that changes the state moves the cursor
\* forward or returns, so tokenize terminates exactly when no state is reached in
\* which it has not returned and no iteration changes the state any more.
C1_TokenizeTerminatesWithEof ==
    \/ lpc = "done" /\ EofOnceLast
    \/ lpc = "run" /\ ENABLED <<NextLex>>_lexVars


\* invocations of callback cb during the last operation, whoever called it
Total(cb) == inv["a"][cb] + inv["b"][cb] + inv["c"][cb] + inv["d"][cb] + inv[Direct][cb]

\* C2: the signal writes made inside one batch(fn) call invoke each affected
\* subscriber callback at most once, and only after fn has completed.
C2_BatchNotifiesOncePerSubscriber ==
    /\ (isBatching /\ last.op \in {"set", "exit"}) => inv = NoInv
    /\ (last.op = "exit" /\ last.flushed) => \A cb \in Callbacks : Total(cb) <= 1

\* C3: a set to a different value outside a batch invokes every subscriber that
\* was registered on the signal exactly once before set returns; the same set
\* made inside a batch invokes each of them exactly once during the next flush.
C3_SetNotifiesEachSubscriberOnce ==
    /\ (last.op = "set" /\ last.changed /\ ~last.batching) =>
            \A cb \in last.subsBefore : inv[last.sig][cb] = 1
    /\ (last.op = "set" /\ last.changed /\ last.batching) => inv = NoInv
    /\ (last.op = "exit" /\ last.flushed) =>
            \A n \in 1..Len(last.tasks) :
                \A cb \in last.tasks[n].subsAtSet : inv[last.tasks[n].sig][cb] = 1

\* C4: s.set(v) with v the same as the current value is a no-op in every state:
\* the value is unchanged, no subscriber is invoked, nothing joins the pending set.
C4_SetSameValueIsNoOp ==
    [][(last'.op = "set" /\ last'.v = val[last'.sig]) =>
            /\ val' = val
            /\ subs' = subs
            /\ pending' = pending
            /\ inv' = NoInv]_vars

\* subscribe, set(1), set(1): the second set has just been made
C4_Witness ==
    /\ last.op = "set" /\ ~last.changed /\ last.v = 1
    /\ "f" \in subs[last.sig]
    /\ val[last.sig] = 1

\* C9: the rerun callback of a computed is registered on every signal calc read
\* in its latest evaluation (initial or rerun), so whenever no batch is open the
\* computed signal holds calc of the current signal values.
C9_ComputedTracksEveryRead ==
    Rerun \in created =>
        /\ \A s \in lastReads[Rerun] : Rerun \in subs[s]
        /\ (~isBatching /\ pending = <<>>) => val[Out] = CalcValue(val)

\* C10: effect(fn) runs fn exactly once before it returns, and afterwards fn runs
\* once more each time a signal it read in its latest run is set, outside a
\* batch, to a different value.
C10_EffectRunsOnCreateAndOnChange ==
    [][/\ \A e \in Effects : (e \notin created /\ e \in created') =>
            (inv'[Direct][e] = 1 /\ \A s \in Signals : inv'[s][e] = 0)
       /\ \A e \in Effects : \A s \in Sources :
            (/\ e \in created /\ s \in lastReads[e] /\ ~isBatching
             /\ last'.op = "set" /\ last'.sig = s /\ last'.v # val[s])
            => inv'[s][e] = 1]_vars

\* the effect was created reading only a, started to read b in a re-run, and b
\* has just been set: the effect ran again
C10_Witness ==
    /\ last.op = "set" /\ last.sig = "b" /\ last.changed /\ ~last.batching
    /\ "run" \in created /\ "b" \notin firstReads["run"]
    /\ inv["b"]["run"] = 1


\* the keys of arr, in array order
KeySeq(arr) == [n \in 1..Len(arr) |-> Key(arr[n], n - 1)]

C6_EachKeepsDocumentOrder ==
    [][attached =>
        /\ rendered' = SelectSeq(KeySeq(list'), LAMBDA k : k \notin DOMAIN lookup)
        /\ dom' = [n \in 1..Len(list') |-> lookup'[Key(list'[n], n - 1)].node]
                    \o <<Marker>>]_vars

\* C7: each() with the marker attached: after the pass for B every record whose
\* key is not in B has its node detached and its entry deleted, so the keys of
\* the mapping are exactly the keys of B.
C7_EachRemovesMissingRecords ==
    [][attached =>
        /\ DOMAIN lookup' = Keys(list')
        /\ \A k \in DOMAIN lookup \ Keys(list') : lookup[k].node \notin Range(dom')]_vars

\* the item of the first initial node has been removed, the second one stays
C7_Witness ==
    /\ attached
    /\ dom = <<2, Marker>>
    /\ NodesOf(lookup) = {2}
    /\ Len(list) = 1

\* C8: eachKeyed: after the list changes from A to B, the node of every key of A
\* that is not in B is detached when the pass ends, and its entry is deleted.
C8_EachKeyedRemovesMissingNodes ==
    [][\A k \in DOMAIN currentMap :
        k \notin {list'[n].id : n \in 1..Len(list')} =>
            /\ k \notin DOMAIN currentMap'
            /\ currentMap[k].node \notin inDoc']_vars


\* C11: after the disposer returned by effect(fn) has been called, a later set of
\* a signal that fn had read, to a different value, does not run fn again,
\* neither when set returns nor when the batch that holds the set is flushed.
C11_DisposedEffectDoesNotRun ==
    \A e \in disposed : last.op \in {"set", "exit"} => Total(e) = 0

\* the pending tasks of signal s
TasksOf(q, s) == Cardinality({n \in 1..Len(q) : q[n].sig = s})

\* C12: while a batch is active (also inside a nested batch, and after a nested
\* batch has returned while the outer one has not) set invokes no subscriber;
\* the return of a nested batch flushes nothing; the return of the outermost
\* batch runs every pending notification exactly once and leaves the pending
\* set empty and the batching flag false.
C12_NestedBatchesFlushOnce ==
    [][/\ (isBatching /\ last'.op = "set") => inv' = NoInv
       /\ (last'.op = "exit" /\ Len(wasStack) > 1) =>
            /\ inv' = NoInv
            /\ pending' = pending
            /\ isBatching'
       /\ (last'.op = "exit" /\ Len(wasStack) = 1) =>
            /\ pending' = <<>>
            /\ ~isBatching'
            /\ \A s \in Sources : \A cb \in Plain \cap subs[s] :
                    inv'[s][cb] = TasksOf(pending, s)]_vars

\* a nested batch that made a change has returned, the outer batch has not: the
\* change is still pending and its subscriber has not been called
C12_Witness ==
    /\ last.op = "exit" /\ isBatching /\ Len(wasStack) = 1
    /\ pending # <<>>
    /\ "f" \in subs[pending[1].sig]
    /\ inv = NoInv

\* C20: the signal returned by resource(loader) holds null from its creation
\* until the then-callback of the loader's promise has run; that callback
\* stores the resolved value r and notifies each subscriber once exactly when r
\* is not null; a rejected or unsettled promise leaves the signal at null and
\* its subscribers uncalled in every later state.
C20_ResourceFollowsPromise ==
    [][/\ promise'.status \in {"pending", "fulfilled", "rejected"} =>
            /\ val'[Resource] = Null
            /\ \A cb \in Callbacks : inv'[Resource][cb] = 0
       /\ promise.status = "rejected" => promise'.status = "rejected"
       /\ (promise.status = "fulfilled" /\ promise'.status = "delivered") =>
            /\ val'[Resource] = promise.value
            /\ \A cb \in subs[Resource] :
                    inv'[Resource][cb] = IF promise.value # Null THEN 1 ELSE 0
       /\ promise.status = "delivered" =>
            /\ promise' = promise
            /\ val'[Resource] = promise.value
            /\ \A cb \in Callbacks : inv'[Resource][cb] = 0]_vars

\* the promise resolved with a value, the then-callback has run, and the
\* subscriber of the resource signal was called once
C20_Witness ==
    /\ promise.status = "delivered" /\ promise.value = "x"
    /\ last.op = "then" /\ "f" \in last.subsBefore
    /\ val[Resource] = "x"
    /\ inv[Resource]["f"] = 1

\* a string of the model
IsString(s) == \A n \in 1..Len(s) : s[n] \in Chars

\* a sequence of Text, Expression and Element nodes
RECURSIVE IsNodeSeq(_)
IsNodeSeq(ns) ==
    \A n \in 1..Len(ns) :
        LET x == ns[n] IN
        \/ /\ x.type = "Text" /\ DOMAIN x = {"type", "value"}
           /\ IsString(x.value)
        \/ /\ x.type = "Expression" /\ DOMAIN x = {"type", "code"}
           /\ IsString(x.code)
        \/ /\ x.type = "Element" /\ DOMAIN x = {"type", "tag", "attrs", "children"}
           /\ IsString(x.tag)
           /\ \A a \in 1..Len(x.attrs) :
                IsString(x.attrs[a].k) /\ (x.attrs[a].v = NullAttr \/ IsString(x.attrs[a].v))
           /\ IsNodeSeq(x.children)

\* C13: for every input on which tokenize returns, parse(tokenize(s)) raises no
\* error and returns a sequence of nodes, the empty one for the empty string,
\* whatever the order of the tokens (stray closing tags, unclosed tags, unclosed
\* brace expressions, attribute tokens among the children).
C13_ParseNeverRaises ==
    /\ thrown # "parse"
    /\ cpc = "parsed" => (IsNodeSeq(ast) /\ (template = <<>> => ast = <<>>))

\* an unclosed brace expression: parseExpr has consumed the eof token, and parse
\* returned one Expression with empty code
C13_Witness ==
    /\ cpc = "parsed"
    /\ template = <<"{">>
    /\ ast = <<Expression(<<>>)>>

\* the text an escaped template stands for
RECURSIVE Unescape(_)
Unescape(s) ==
    IF s = <<>> THEN <<>>
    ELSE IF Len(s) >= 2 /\ s[1] = "\\" /\ s[2] = "\""
         THEN <<"\"">> \o Unescape(SubSeq(s, 3, Len(s)))
    ELSE IF Len(s) >= 2 /\ s[1] = "\\" /\ s[2] = "n"
         THEN <<"\n">> \o Unescape(SubSeq(s, 3, Len(s)))
    ELSE <<Head(s)>> \o Unescape(Tail(s))

PreOpen == <<"h", "(", "\"", "p", "r", "e", "\"", ",", "n", "u", "l", "l", ",", "\"">>
PreClose == <<"\"", ")">>

C15_OptimizeIdempotent ==
    [][(cpc = "once" /\ cpc' = "twice") => ast' = ast]_vars

\* the property the claim describes for one attribute
ExpectedProp(e) ==
    IF e.v = NullAttr \/ e.v = <<>> THEN Quoted(e.k) \o <<":", "n", "u", "l", "l">>
    ELSE IF e.v[1] = "{" /\ e.v[Len(e.v)] = "}" /\ Len(e.v) >= 2
         THEN Quoted(e.k) \o <<":">> \o Trim(SubSeq(e.v, 2, Len(e.v) - 1))
    ELSE Quoted(e.k) \o <<":">> \o JSONStringify(e.v)

ExpectedProps(attrs) ==
    <<"{">> \o Join([n \in 1..Len(attrs) |-> ExpectedProp(attrs[n])], <<",">>) \o <<"}">>

\* C16: generate, for attributes whose key is not an event-handler key: a value
\* in matching braces gives the unwrapped inner code, a non-empty value without
\* braces gives its JSON-quoted literal, a null or empty value gives null, and
\* the properties keep the key order of attrs.
C16_BuildPropsRules ==
    (cpc = "generated" /\ ast \in AttrAsts) =>
        \E tag \in {ast[1].tag, Quoted(ast[1].tag)} :
            code = <<"h", "(">> \o tag \o CommaSpace \o ExpectedProps(ast[1].attrs) \o <<")">>

ExpectedInput ==
    <<"h", "(", "\"", "i", "n", "p", "u", "t", "\"", ",", " ", "{", "\"", "v",
      "a", "l", "u", "e", "\"", ":", "c", "o", "u", "n", "t", ",", "\"", "d",
      "i", "s", "a", "b", "l", "e", "d", "\"", ":", "n", "u", "l", "l", "}", ")">>

\* C17: through the whole pipeline a brace-expression attribute value compiles to
\* the unquoted inner code and a bare attribute to null:
\* <input value={count} disabled> compiles to
\* h("input", {"value":count,"disabled":null}).
C17_InputExampleCompiles ==
    (cpc = "done" /\ thrown = Null /\ template = InputTemplate) => code = ExpectedInput

\* gen of every node, empty contributions included
GenAll(nodes) == [n \in 1..Len(nodes) |-> Gen(nodes[n])]

\* C18: generate of zero nodes is the text null, of exactly one node that node's
\* generated expression, of more than one node the bracketed, comma-joined list
\* of each node's generated expression in node order, also when some of the
\* nodes are whitespace-only Text.
C18_GenerateTopLevelRule ==
    cpc = "generated" =>
        /\ Len(ast) = 0 => code = <<"n", "u", "l", "l">>
        /\ Len(ast) = 1 => code = Gen(ast[1])
        /\ Len(ast) > 1 => code = <<"[">> \o Join(GenAll(ast), CommaSpace) \o <<"]">>

\* C18, amended: the rule counts the nodes whose generated expression is not
\* empty: none gives null, exactly one gives that expression, more than one the
\* bracketed, comma-joined list of the non-empty expressions in node order.
C18_GenerateCountsNonEmptyParts ==
    cpc = "generated" =>
        LET kept == {n \in 1..Len(ast) : Gen(ast[n]) # <<>>}
        IN  /\ kept = {} => code = <<"n", "u", "l", "l">>
            /\ Cardinality(kept) = 1 => code = Gen(ast[CHOOSE n \in kept : TRUE])
            /\ Cardinality(kept) > 1 =>
                code = <<"[">> \o Join(SelectSeq(GenAll(ast), LAMBDA x : x # <<>>), CommaSpace)
                        \o <<"]">>

\* two nodes, the first a whitespace-only Text: the result is the second node's
\* expression alone, without brackets
C18_Witness ==
    /\ cpc = "generated"
    /\ ast = <<Text(<<" ">>), Text(<<"a">>)>>
    /\ code = <<"\"", "a", "\"">>

ExpectedButton ==
    <<"h", "(", "M", "y", "B", "u", "t", "t", "o", "n", ",", " ", "{", "\"", "l",
      "a", "b", "e", "l", "\"", ":", "\"", "S", "a", "v", "e", "\"", ",", "\"",
      "o", "n", "C", "l", "i", "c", "k", "\"", ":", "h", "a", "n", "d", "l", "e",
      "S", "a", "v", "e", "}", ",", " ", "\"", "C", "l", "i", "c", "k", " ", "m",
      "e", "\"", ")">>

\* C19: an Element whose tag starts with an uppercase letter is emitted with the
\* tag as a bare identifier, every other tag as a quoted string literal;
\* <MyButton label="Save" onClick={handleSave}>Click me</MyButton> compiles to
\* h(MyButton, {"label":"Save","onClick":handleSave}, "Click me").
C19_UppercaseTagIsIdentifier ==
    /\ (cpc = "done" /\ thrown = Null /\ template = ButtonTemplate) => code = ExpectedButton
    /\ (/\ cpc = "done" /\ thrown = Null
        /\ Len(ast) = 1 /\ ast[1].type = "Element" /\ ast[1].tag # <<>>) =>
            LET tag == IF ast[1].tag[1] \in Upper THEN ast[1].tag ELSE Quoted(ast[1].tag)
            IN  /\ Len(code) >= Len(tag) + 3
                /\ SubSeq(code, 1, Len(tag) + 3) = <<"h", "(">> \o tag \o <<",">>

\* C21: the function returned by s.subscribe(fn) revokes exactly that
\* subscription: once it has been called, a set of s to a different value does
\* not invoke fn, and still invokes, once, every callback whose subscription to
\* s has not been revoked.
C21_UnsubscribeRevokesOnlyThatSubscription ==
    [][(last'.op = "set" /\ last'.changed) =>
            \A f \in Subscribers :
                /\ subscription[<<last'.sig, f>>] = "revoked" => inv'[last'.sig][f] = 0
                /\ subscription[<<last'.sig, f>>] = "live" => inv'[last'.sig][f] = 1]_vars

\* a set has just notified g while f, revoked before, was left alone
C21_Witness ==
    /\ last.op = "set" /\ last.changed
    /\ subscription[<<last.sig, "f">>] = "revoked"
    /\ subscription[<<last.sig, "g">>] = "live"
    /\ inv[last.sig]["g"] = 1 /\ inv[last.sig]["f"] = 0

\* C29: the dependency-tracking slots are restored on exit of every
\* computation: after effect(fn), a re-run or computed(calc) has finished,
\* normally or because the body threw, activeWatch and activeComputed hold the
\* values they had before; hence a read made while no body is executing adds
\* no subscriber.
C29_TrackingSlotsRestored ==
    [][/\ last'.op \in {"effect", "computed", "set"} =>
            (activeWatch' = activeWatch /\ activeComputed' = activeComputed)
       /\ last'.op = "read" => subs' = subs]_vars

\* C30: calling the disposer of effect A while the body of effect B is running
\* changes nothing for B: the signals B's body read in that run are recorded as
\* B's dependencies, and B re-runs when one of them changes.
C30_DisposerLeavesOtherEffectsAlone ==
    [][/\ (last'.op = "effect" /\ last'.kind = "dispose") =>
            \A s \in lastReads'[last'.cb] : last'.cb \in subs'[s]
       /\ (last'.op = "set" /\ last'.changed) =>
            \A e \in Watchers :
                (fnKind[e] = "dispose" /\ last'.sig \in lastReads[e]) => inv'[last'.sig][e] >= 1]_vars

\* the call text of the element <a>kids</a>, kids being "b" or nothing
NestedCall(kids) ==
    IF kids = <<>> THEN <<"h", "(", "\"", "a", "\"", ",", " ", "{", "}", ")">>
    ELSE <<"h", "(", "\"", "a", "\"", ",", " ", "{", "}", ",", " ", "\"">> \o kids \o <<"\"", ")">>

ExpectedEach ==
    <<"h", "(", "\"", "u", "l", "\"", ",", " ", "{", "}", ",", " ",
      "(", "e", "a", "c", "h", "(", "t", "o", "d", "o", "s", ",",
      " ", "(", "i", "t", "e", "m", ",", " ", "i", ")", " ", "=",
      ">", " ", "h", "(", "\"", "l", "i", "\"", ",", " ", "{", "}",
      ",", " ", "(", "i", ")", ",", " ", "\"", ":", " ", "\"", ",",
      " ", "(", "i", "t", "e", "m", ")", ")", ")", ")", ")">>

\* C22: markup inside a brace expression: parse yields one Expression node for
\* the whole brace expression, whose code is the code text around the nested
\* element with the element replaced by its h(...) call text; the tokens after
\* the element's closing tag belong to the same expression.  The each() template
\* of the tests compiles to the text the tests expect.
C22_MarkupInsideExpressionIsInlined ==
    /\ (cpc = "done" /\ thrown = Null /\ template = EachTemplate) => code = ExpectedEach
    /\ \A x, z \in {<<>>, <<"f", "(">>, <<")">>, <<" ", "c", " ">>}, y \in {<<>>, <<"b">>} :
          (/\ cpc = "parsed"
           /\ template = <<"{">> \o x \o <<"<", "a", ">">> \o y \o <<"<", "/", "a", ">">>
                            \o z \o <<"}">>)
          => ast = <<Expression(Trim(x \o NestedCall(y) \o z))>>

C22_Witness ==
    /\ cpc = "done" /\ thrown = Null /\ template = EachTemplate /\ code = ExpectedEach

\* the texts of braces, "a" and spaces whose braces are balanced
RECURSIVE Balanced(_, _)
Balanced(x, depth) ==
    IF x = <<>> THEN depth = 0
    ELSE IF Head(x) = "{" THEN Balanced(Tail(x), depth + 1)
    ELSE IF Head(x) = "}" THEN depth > 0 /\ Balanced(Tail(x), depth - 1)
    ELSE Balanced(Tail(x), depth)

BalancedInner ==
    {x \in UNION {[1..k -> {"{", "}", "a", " "}] : k \in 0..MaxSrcLen} : Balanced(x, 0)}

\* C25: a self-closing opening tag <a ... /> is tokenized as tagOpen(a), its
\* attribute tokens and a synthetic tagClose(a); parse yields an Element without
\* children for it, and what follows the tag is parsed as its siblings.
C25_SelfClosingTagHasNoChildren ==
    \A attrs \in {<<>>, <<" ">>, <<" ", "b">>, <<" ", "b", "=", "'", "c", "'">>,
                  <<" ", "b", "=", "{", "c", "}">>, <<" ", "b", "=", "c">>},
       rest \in {<<>>, <<"d">>, <<"<", "e", ">">>} :
        (cpc = "parsed" /\ template = <<"<", "a">> \o attrs \o <<"/", ">">> \o rest) =>
            /\ out[1] = Tok("tagOpen", <<"a">>)
            /\ \E n \in 2..Len(out) :
                    /\ out[n] = Tok("tagClose", <<"a">>)
                    /\ \A m \in 2..(n - 1) : out[m].type \in {"attrName", "attrValue"}
            /\ ast[1].type = "Element" /\ ast[1].tag = <<"a">> /\ ast[1].children = <<>>
            /\ rest = <<>> => Len(ast) = 1
            /\ rest = <<"d">> => ast = <<ast[1], Text(<<"d">>)>>
            /\ rest = <<"<", "e", ">">> => ast = <<ast[1], Element(<<"e">>, <<>>, <<>>)>>

ExpectedData ==
    <<"{", " ", "i", "d", ":", " ", "u", "s", "e", "r", ".", "i",
      "d", ",", " ", "n", "a", "m", "e", ":", " ", "{", " ", "f",
      "i", "r", "s", "t", ":", " ", "'", "x", "'", " ", "}", " ", "}">>

\* C26: for a braced attribute value with balanced nested braces tokenize
\* emits one attrName and one attrValue, the attrValue being the trimmed text
\* between the outermost braces with the inner braces kept, and scanning
\* resumes right after the matching closing brace.
C26_BracedAttributeKeepsNestedBraces ==
    /\ (lpc = "done" /\ src = DataTemplate) =>
            out = <<Tok("tagOpen", <<"d", "i", "v">>), Tok("attrName", <<"d", "a", "t", "a">>),
                    Tok("attrValue", ExpectedData), Tok("eof", <<>>)>>
    /\ \A x \in BalancedInner :
          (lpc = "done" /\ src = <<"<", "a", " ", "b", "=", "{">> \o x \o <<"}", ">", "d">>)
          => out = <<Tok("tagOpen", <<"a">>), Tok("attrName", <<"b">>),
                     Tok("attrValue", Trim(x)), Tok("text", <<"d">>), Tok("eof", <<>>)>>

C26_Witness ==
    /\ lpc = "done"
    /\ src = <<"<", "a", " ", "b", "=", "{", "{", "a", "}", "}", ">", "d">>
    /\ out[3] = Tok("attrValue", <<"{", "a", "}">>)

\* C27: for a brace expression without markup the Expression node's code is
\* the source text between the opening brace and its matching closing brace,
\* verbatim apart from trimming, nested braces included.
C27_ExpressionCodeIsVerbatim ==
    \A x \in BalancedInner :
        (cpc = "parsed" /\ template = <<"{">> \o x \o <<"}">>) => ast = <<Expression(Trim(x))>>

\* ------------------------------------------------------------------
\* C23: optimize does not modify its argument: after optimize(ast) has returned,
\* every node of the tree it was given is as it was before the call
\* ------------------------------------------------------------------
C23_OptimizeLeavesArgumentUnchanged ==
    [][(cpc = "tree" /\ cpc' = "once") => argAfter' = ast]_vars

\* ------------------------------------------------------------------
\* C24: with the definition of optimize that only merges, the result has no two
\* adjacent Text nodes at any depth, every run of consecutive Text nodes of the
\* argument has become one Text node holding their values joined in order, and
\* the Expression and Element nodes are the argument's, in the same order and
\* with the same content (an Element's children being merged the same way)
\* ------------------------------------------------------------------
RECURSIVE NoAdjacentText(_)
NoAdjacentText(nodes) ==
    /\ \A n \in 1..(Len(nodes) - 1) : ~(nodes[n].type = "Text" /\ nodes[n + 1].type = "Text")
    /\ \A n \in 1..Len(nodes) : nodes[n].type = "Element" => NoAdjacentText(nodes[n].children)

\* r is nodes with each run of Text nodes replaced by one Text node; run is the
\* length of the run that nodes starts with
RECURSIVE RunsMerged(_, _)
RunsMerged(nodes, r) ==
    LET run == CHOOSE m \in 0..Len(nodes) :
                   /\ \A n \in 1..m : nodes[n].type = "Text"
                   /\ m < Len(nodes) => nodes[m + 1].type # "Text"
        RECURSIVE Concat(_)
        Concat(m) == IF m = 0 THEN <<>> ELSE Concat(m - 1) \o nodes[m].value
    IN  IF nodes = <<>> THEN r = <<>>
        ELSE IF run > 0
             THEN /\ r # <<>>
                  /\ r[1] = Text(Concat(run))
                  /\ RunsMerged(SubSeq(nodes, run + 1, Len(nodes)), Tail(r))
        ELSE /\ r # <<>>
             /\ IF nodes[1].type = "Element"
                THEN /\ r[1].type = "Element"
                     /\ r[1].tag = nodes[1].tag /\ r[1].attrs = nodes[1].attrs
                     /\ RunsMerged(nodes[1].children, r[1].children)
                ELSE r[1] = nodes[1]
             /\ RunsMerged(Tail(nodes), Tail(r))

C24_MergeJoinsTextRuns ==
    [][(variant = "merge" /\ cpc = "tree" /\ cpc' = "once")
          => NoAdjacentText(ast') /\ RunsMerged(ast, ast')]_vars

\* the three Text nodes of the test have become one
C24_Witness ==
    /\ variant = "merge" /\ cpc = "once"
    /\ ast = <<Text(    <<"H", "e", "l", "l", "o", " ", "W", "o", "r", "l", "d">>)>>

\* ------------------------------------------------------------------
\* C28: for an element, the text of inline equals the text of generate for the
\* same element as the only top-level node, under the generate of codegen.ts or
\* under the one of src/unnamed/part_012
\* ------------------------------------------------------------------
C28_InlineAgreesWithGenerate ==
    cpc = "inlined" => (inlined = code \/ inlined = GenAlt(ast[1]))

====
